---- MODULE Spec2Model ----
(***************************************************************************)
(* Layered configuration resolution of bittensor.config (config.py), the   *)
(* dot-path codec of bittensor.utils.data (data.py), the profile commands   *)
(* (commands/profile.py) and the NTP clock of utils/networking.py.          *)
(*                                                                         *)
(* Specifications: Spec (calls of config.__init__), SpecData (the codec     *)
(* and the merges on dict objects), SpecProfile (the profile commands on    *)
(* a profile directory) and SpecNTP (get_current_ntp_time, with weak        *)
(* fairness of the steps of a running call).                                *)
(*                                                                         *)
(* Representation.                                                         *)
(*  - A Python str is a sequence of one-character strings, so that         *)
(*    slicing, startswith, split, lower and replace are computed.          *)
(*  - None, True and False are the one-element sequences PyNone, PyTrue    *)
(*    and PyFalse, whose single element is not a character, so that no     *)
(*    str equals them.                                                     *)
(*  - A Python dict is an insertion-ordered sequence of <<key, node>>      *)
(*    pairs with unique keys; a node is Dict(pairs) or Scalar(value).      *)
(*  - An exception leaving a function is the node Raise(name).             *)
(*                                                                         *)
(* Operators bind their arguments with Let, Let2, ... before they use      *)
(* them, so that an argument is evaluated once however often the body      *)
(* reads it.                                                               *)
(***************************************************************************)
EXTENDS Naturals, Sequences, FiniteSets, TLC

Let(a, F(_)) == CHOOSE r \in {F(x) : x \in {a}} : TRUE
Let2(a, b, F(_, _)) == CHOOSE r \in {F(x, y) : x \in {a}, y \in {b}} : TRUE
Let3(a, b, c, F(_, _, _)) ==
    CHOOSE r \in {F(x, y, z) : x \in {a}, y \in {b}, z \in {c}} : TRUE

\* ------------------------------------------------------------ str literals
\* The str literals of config.py, by name.
lit ==
    [ dashes |-> <<"-","-">>,
      BT_ |-> <<"B","T","_">>,
      is_set |-> <<"_","_","i","s","_","s","e","t">>,
      config |-> <<"c","o","n","f","i","g">>,
      strict |-> <<"s","t","r","i","c","t">>,
      no_version_checking |-> <<"n","o","_","v","e","r","s","i","o","n","_","c","h","e","c","k","i","n","g">>,
      no_prompt |-> <<"n","o","_","p","r","o","m","p","t">>,
      help |-> <<"h","e","l","p">>,
      profile |-> <<"p","r","o","f","i","l","e">>,
      path |-> <<"p","a","t","h">>,
      profile_active |-> <<"p","r","o","f","i","l","e",".","a","c","t","i","v","e">>,
      profile_path |-> <<"p","r","o","f","i","l","e",".","p","a","t","h">>,
      config_path |-> <<"c","o","n","f","i","g",".","p","a","t","h">>,
      btcliconfig_yml |-> <<"b","t","c","l","i","c","o","n","f","i","g",".","y","m","l">>,
      btcliprofile |-> <<".","b","t","c","l","i","p","r","o","f","i","l","e">>,
      yml |-> <<".","y","m","l">>,
      bootstrap_profile_path |-> <<"~","/",".","b","i","t","t","e","n","s","o","r","/","p","r","o","f","i","l","e","s","/">>,
      bootstrap_config_path |-> <<"~","/",".","b","i","t","t","e","n","s","o","r","/">>,
      command |-> <<"c","o","m","m","a","n","d">>,
      subcommand |-> <<"s","u","b","c","o","m","m","a","n","d">> ]

PyNone == <<"<None>">>
PyTrue == <<"<True>">>
PyFalse == <<"<False>">>
\* argparse.SUPPRESS, the marker of an option that has no default
SUPPRESS == <<"==SUPPRESS==">>

\* ------------------------------------------------------------ str methods
\* s[n:]
StrFrom(s, n) ==
    Let2(s, n, LAMBDA x, k : IF k >= Len(x) THEN <<>> ELSE SubSeq(x, k + 1, Len(x)))

\* s[:n]
StrTo(s, n) ==
    Let2(s, n, LAMBDA x, k : IF k >= Len(x) THEN x ELSE SubSeq(x, 1, k))

\* s.startswith(p)
StartsWith(s, p) ==
    Let2(s, p, LAMBDA x, y : Len(y) <= Len(x) /\ SubSeq(x, 1, Len(y)) = y)

\* s.endswith(p)
EndsWith(s, p) ==
    Let2(s, p, LAMBDA x, y :
        Len(y) <= Len(x) /\ SubSeq(x, Len(x) - Len(y) + 1, Len(x)) = y)

\* sub in s
StrContains(s, sub) ==
    Let2(s, sub, LAMBDA x, y :
        \E i \in 0..Len(x) : i + Len(y) <= Len(x) /\ SubSeq(x, i + 1, i + Len(y)) = y)

\* c in s, for a character c
HasChar(s, c) == Let(s, LAMBDA x : \E i \in 1..Len(x) : x[i] = c)

\* s.index(c) + 1 for a character c that occurs in s
CharIndex(s, c) ==
    Let(s, LAMBDA x :
        CHOOSE i \in 1..Len(x) : x[i] = c /\ \A j \in 1..(i - 1) : x[j] # c)

\* s.split(c): the pieces between the occurrences of the character c
RECURSIVE StrSplit(_, _)
StrSplit(s, c) ==
    Let(s, LAMBDA x :
        IF HasChar(x, c)
        THEN Let(CharIndex(x, c), LAMBDA k :
                <<StrTo(x, k - 1)>> \o StrSplit(StrFrom(x, k), c))
        ELSE <<x>>)

\* s.split(c, 1)
StrSplit1(s, c) ==
    Let(s, LAMBDA x :
        IF HasChar(x, c)
        THEN Let(CharIndex(x, c), LAMBDA k : <<StrTo(x, k - 1), StrFrom(x, k)>>)
        ELSE <<x>>)

UpperCase == <<"A","B","C","D","E","F","G","H","I","J","K","L","M",
               "N","O","P","Q","R","S","T","U","V","W","X","Y","Z">>
LowerCase == <<"a","b","c","d","e","f","g","h","i","j","k","l","m",
               "n","o","p","q","r","s","t","u","v","w","x","y","z">>

\* s.lower()
StrLower(s) ==
    Let(s, LAMBDA x :
        [i \in 1..Len(x) |->
            IF \E k \in 1..26 : UpperCase[k] = x[i]
            THEN LowerCase[CHOOSE k \in 1..26 : UpperCase[k] = x[i]]
            ELSE x[i]])

\* s.replace(a, b) for characters a and b
StrReplace(s, a, b) ==
    Let(s, LAMBDA x : [i \in 1..Len(x) |-> IF x[i] = a THEN b ELSE x[i]])

\* s.strip(), for the line ends a pointer file holds
RECURSIVE StrStrip(_)
StrStrip(s) ==
    Let(s, LAMBDA x :
        IF Len(x) > 0 /\ x[1] = "\n" THEN StrStrip(Tail(x))
        ELSE IF Len(x) > 0 /\ x[Len(x)] = "\n" THEN StrStrip(SubSeq(x, 1, Len(x) - 1))
        ELSE x)

\* ------------------------------------------------------------ dict
Dict(pairs) == [t |-> "dict", items |-> pairs, val |-> <<>>]
Scalar(v) == [t |-> "scalar", items |-> <<>>, val |-> v]
Raise(name) == [t |-> "raise", items |-> <<>>, val |-> <<name>>]
EmptyDict == Dict(<<>>)
Str(v) == Scalar(v)

IsDict(n) == n.t = "dict"
IsScalar(n) == n.t = "scalar"
IsRaise(n) == n.t = "raise"
IsNone(n) == Let(n, LAMBDA x : x.t = "scalar" /\ x.val = PyNone)

\* a str, as opposed to None, True and False
IsStr(n) == Let(n, LAMBDA x : x.t = "scalar" /\ x.val \notin {PyNone, PyTrue, PyFalse})

\* bool(x) of a node
Truthy(n) ==
    Let(n, LAMBDA x :
        IF x.t = "dict" THEN x.items # <<>> ELSE x.val \notin {PyNone, PyFalse, <<>>})

\* key in d
Has(d, k) ==
    Let2(d, k, LAMBDA x, key : \E i \in 1..Len(x.items) : x.items[i][1] = key)

\* d[key]
Get(d, k) ==
    Let2(d, k, LAMBDA x, key :
        x.items[CHOOSE i \in 1..Len(x.items) : x.items[i][1] = key][2])

\* d.get(key): None for a missing key
GetOrNone(d, k) ==
    Let2(d, k, LAMBDA x, key : IF Has(x, key) THEN Get(x, key) ELSE Scalar(PyNone))

\* d[key] = v: an existing key keeps its place, a new key goes last
Put(d, k, v) ==
    Let3(d, k, v, LAMBDA x, key, value :
        IF Has(x, key)
        THEN Dict([i \in 1..Len(x.items) |->
                      IF x.items[i][1] = key THEN <<key, value>> ELSE x.items[i]])
        ELSE Dict(Append(x.items, <<key, value>>)))

\* list(d): the keys in insertion order
Keys(d) == Let(d, LAMBDA x : [i \in 1..Len(x.items) |-> x.items[i][1]])

KeySet(d) == Let(d, LAMBDA x : {x.items[i][1] : i \in 1..Len(x.items)})

\* a.update(b), from the i-th item of b
RECURSIVE DictUpdate(_, _, _)
DictUpdate(a, b, i) ==
    Let2(a, b, LAMBDA x, y :
        IF i > Len(y.items) THEN x
        ELSE DictUpdate(Put(x, y.items[i][1], y.items[i][2]), y, i + 1))

\* dict(items): a later item replaces an earlier one of the same key
DictOf(pairs) == DictUpdate(EmptyDict, Dict(pairs), 1)

\* ------------------------------------------------------------ utils/data.py
\* The walk of one key of unflatten_dict: every part but the last is stepped
\* into, after being set to a fresh dict when it is missing or None; stepping
\* into any other scalar fails at the next subscript (TypeError).
RECURSIVE SetPath(_, _, _, _)
SetPath(d, parts, value, fresh) ==
    Let3(d, parts, value, LAMBDA x, ps, v :
        IF ~IsDict(x) THEN Raise("TypeError")
        ELSE IF Len(ps) = 1 THEN Put(x, ps[1], v)
        ELSE Let(SetPath(IF ~Has(x, ps[1]) \/ IsNone(Get(x, ps[1]))
                         THEN fresh ELSE Get(x, ps[1]),
                         Tail(ps), v, fresh),
                 LAMBDA sub : IF IsRaise(sub) THEN sub ELSE Put(x, ps[1], sub)))

RECURSIVE UnflattenFrom(_, _, _)
UnflattenFrom(nested_dict, flat_dict, i) ==
    Let2(nested_dict, flat_dict, LAMBDA nested, flat :
        IF IsRaise(nested) \/ i > Len(flat.items) THEN nested
        ELSE UnflattenFrom(
                SetPath(nested, StrSplit(flat.items[i][1], "."), flat.items[i][2],
                        EmptyDict),
                flat, i + 1))

unflatten_dict(flat_dict) == UnflattenFrom(EmptyDict, flat_dict, 1)

\* The items list of flatten_dict, in the order the code appends them.
RECURSIVE FlattenItems(_, _, _)
FlattenItems(nested_dict, parent_key, i) ==
    Let2(nested_dict, parent_key, LAMBDA nested, parent :
        IF i > Len(nested.items) THEN <<>>
        ELSE Let2(nested.items[i][2],
                  IF parent # <<>> THEN parent \o <<".">> \o nested.items[i][1]
                  ELSE nested.items[i][1],
                  LAMBDA v, new_key :
                    (IF IsDict(v) THEN FlattenItems(v, new_key, 1)
                     ELSE << <<new_key, v>> >>)
                    \o FlattenItems(nested, parent, i + 1)))

flatten_dict(nested_dict) == DictOf(FlattenItems(nested_dict, <<>>, 1))

\* ------------------------------------------------------------ config.py: merges
\* deep_merge as dict.update: a dict of dict2 replaces the dict of dict1
ShallowMergeFrom(merged, dict2, i) == DictUpdate(merged, dict2, i)

RECURSIVE DeepMergeFrom(_, _, _)
DeepMergeFrom(merged, dict2, i) ==
    Let2(merged, dict2, LAMBDA m, d2 :
        IF i > Len(d2.items) THEN m
        ELSE Let2(d2.items[i][1], d2.items[i][2], LAMBDA key, value :
                DeepMergeFrom(
                    IF Has(m, key) /\ IsDict(Get(m, key)) /\ IsDict(value)
                    THEN Put(m, key, DeepMergeFrom(Get(m, key), value, 1))
                    ELSE Put(m, key, value),
                    d2, i + 1)))

\* config.deep_merge(dict1, dict2); the deep copies make the result share
\* nothing with the operands
deep_merge(dict1, dict2) == DeepMergeFrom(dict1, dict2, 1)

RECURSIVE MergeFrom(_, _, _)
MergeFrom(a, b, i) ==
    Let2(a, b, LAMBDA x, y :
        IF i > Len(y.items) THEN x
        ELSE Let2(y.items[i][1], y.items[i][2], LAMBDA key, value :
                MergeFrom(
                    IF Has(x, key)
                    THEN IF IsDict(Get(x, key)) /\ IsDict(value)
                         THEN Put(x, key, MergeFrom(Get(x, key), value, 1))
                         ELSE Put(x, key, value)
                    ELSE Put(x, key, value),
                    y, i + 1)))

\* config._merge(a, b), by value: __init__ does not write the nodes of b that
\* _merge stores in a by reference through another name before it reads a
_merge(a, b) == MergeFrom(a, b, 1)

\* ------------------------------------------------------------ argparse
\* An ArgumentParser is [actions, defaults]: its actions in the order they were
\* added and its _defaults dict. An action is
\* [dest, kind, default, required, opts]: kind is "store" (one value),
\* "store_true" (no value) or "help"; default is a node, Scalar(SUPPRESS) when
\* the action sets nothing by default; opts are its option strings.
Action(dest, kind, default, required) ==
    [dest |-> dest, kind |-> kind, default |-> default, required |-> required,
     opts |-> << lit.dashes \o dest >>]

\* argparse.ArgumentParser(): a new parser holds the -h/--help action
HelpAction ==
    [dest |-> lit.help, kind |-> "help", default |-> Scalar(SUPPRESS), required |-> FALSE,
     opts |-> << <<"-","h">>, lit.dashes \o lit.help >>]

ArgumentParser(actions) == [actions |-> <<HelpAction>> \o actions, defaults |-> EmptyDict]

HasOption(parser, opt) ==
    Let2(parser, opt, LAMBDA p, o :
        \E i \in 1..Len(p.actions) :
            \E j \in 1..Len(p.actions[i].opts) : p.actions[i].opts[j] = o)

\* the index of the action that owns an option string
ActionOf(parser, opt) ==
    Let2(parser, opt, LAMBDA p, o :
        CHOOSE i \in 1..Len(p.actions) :
            \E j \in 1..Len(p.actions[i].opts) : p.actions[i].opts[j] = o)

\* parser.add_argument inside try/except: an option string that is already
\* taken raises ArgumentError, which the caller swallows
add_argument(parser, action) ==
    Let2(parser, action, LAMBDA p, a :
        IF \E j \in 1..Len(a.opts) : HasOption(p, a.opts[j])
        THEN p
        ELSE [p EXCEPT !.actions = Append(@, a)])

\* parser.set_defaults(**kwargs)
set_defaults(parser, kwargs) ==
    Let2(parser, kwargs, LAMBDA p, kw :
        [actions |-> [i \in 1..Len(p.actions) |->
                        IF Has(kw, p.actions[i].dest)
                        THEN [p.actions[i] EXCEPT !.default = Get(kw, p.actions[i].dest)]
                        ELSE p.actions[i]],
         defaults |-> DictUpdate(p.defaults, kw, 1)])

\* The option strings a long token abbreviates: _get_option_tuples.
OptionTuples(parser, prefix) ==
    Let2(parser, prefix, LAMBDA p, pre :
        {<<i, j>> \in (1..Len(p.actions)) \X (1..2) :
            /\ j <= Len(p.actions[i].opts)
            /\ StartsWith(p.actions[i].opts[j], pre)})

\* _parse_optional of one token: [kind, act, explicit]. kind "A" is an
\* argument, "O" an option (act = 0: of no action), "error" an ambiguous
\* abbreviation. explicit is <<>> or <<value>> (the text after "=").
\* Tokens are arguments or start with "--"; "--" alone and single-dash
\* tokens are outside the token lists of this model.
_parse_optional(parser, arg_string) ==
    Let3(parser, arg_string, StrSplit1(arg_string, "="), LAMBDA p, tok, halves :
        Let2([kind |-> "A", act |-> 0, explicit |-> <<>>],
             OptionTuples(p, halves[1]),
             LAMBDA A, tuples :
                IF tok = <<>> THEN A
                ELSE IF tok[1] # "-" THEN A
                ELSE IF HasOption(p, tok)
                     THEN [kind |-> "O", act |-> ActionOf(p, tok), explicit |-> <<>>]
                ELSE IF Len(tok) = 1 THEN A
                ELSE IF HasChar(tok, "=") /\ HasOption(p, halves[1])
                     THEN [kind |-> "O", act |-> ActionOf(p, halves[1]),
                           explicit |-> <<halves[2]>>]
                ELSE IF StartsWith(tok, lit.dashes) /\ Cardinality(tuples) > 1
                     THEN [kind |-> "error", act |-> 0, explicit |-> <<>>]
                ELSE IF StartsWith(tok, lit.dashes) /\ Cardinality(tuples) = 1
                     THEN [kind |-> "O", act |-> (CHOOSE t \in tuples : TRUE)[1],
                           explicit |-> IF HasChar(tok, "=") THEN <<halves[2]>> ELSE <<>>]
                ELSE IF HasChar(tok, " ") THEN A
                ELSE [kind |-> "O", act |-> 0, explicit |-> <<>>]))

\* The namespace before any token is read: every action's default that is
\* not SUPPRESS, then the parser-level defaults not yet set.
RECURSIVE NamespaceDefaults(_, _, _)
NamespaceDefaults(parser, namespace, i) ==
    Let2(parser, namespace, LAMBDA p, ns :
        IF i > Len(p.actions) THEN ns
        ELSE Let(p.actions[i], LAMBDA a :
                NamespaceDefaults(p,
                    IF ~Has(ns, a.dest) /\ a.default # Scalar(SUPPRESS)
                    THEN Put(ns, a.dest, a.default) ELSE ns,
                    i + 1)))

RECURSIVE ParserDefaults(_, _, _)
ParserDefaults(parser, namespace, i) ==
    Let2(parser, namespace, LAMBDA p, ns :
        IF i > Len(p.defaults.items) THEN ns
        ELSE ParserDefaults(p,
                IF ~Has(ns, p.defaults.items[i][1])
                THEN Put(ns, p.defaults.items[i][1], p.defaults.items[i][2])
                ELSE ns,
                i + 1))

\* One round of the consume loop, at token i: the state after it, or the
\* state with failed set when argparse calls parser.error or prints the help.
\* st = [ns, extras, seen, failed, next].
ConsumeOne(p, args, i, st) ==
    Let2(_parse_optional(p, args[i]), [st EXCEPT !.failed = TRUE], LAMBDA po, fail :
        IF po.kind = "error" THEN fail
        ELSE IF po.kind = "A" \/ po.act = 0
        THEN [st EXCEPT !.extras = Append(@, args[i]), !.next = i + 1]
        ELSE Let(p.actions[po.act], LAMBDA a :
            IF a.kind = "help" THEN fail
            ELSE IF po.explicit # <<>>
            THEN IF a.kind = "store"
                 THEN [st EXCEPT !.ns = Put(@, a.dest, Scalar(po.explicit[1])),
                                 !.seen = @ \cup {po.act}, !.next = i + 1]
                 ELSE fail
            ELSE IF a.kind = "store_true"
            THEN [st EXCEPT !.ns = Put(@, a.dest, Scalar(PyTrue)),
                            !.seen = @ \cup {po.act}, !.next = i + 1]
            ELSE IF i + 1 <= Len(args) /\ _parse_optional(p, args[i + 1]).kind = "A"
            THEN [st EXCEPT !.ns = Put(@, a.dest, Scalar(args[i + 1])),
                            !.seen = @ \cup {po.act}, !.next = i + 2]
            ELSE fail))

\* The consume loop over the tokens.
RECURSIVE ConsumeFrom(_, _, _)
ConsumeFrom(parser, args, state) ==
    Let3(parser, args, state, LAMBDA p, a, st :
        IF st.failed \/ st.next > Len(a) THEN st
        ELSE ConsumeFrom(p, a, ConsumeOne(p, a, st.next, st)))

\* parser.parse_known_args(args): [ns, extras]; ns is Raise("SystemExit")
\* when argparse calls parser.error or prints the help.
parse_known_args(parser, args) ==
    Let2(parser, args, LAMBDA p, a :
        Let(ConsumeFrom(p, a,
                [ns |-> ParserDefaults(p, NamespaceDefaults(p, EmptyDict, 1), 1),
                 extras |-> <<>>, seen |-> {}, failed |-> FALSE, next |-> 1]),
            LAMBDA st :
                IF st.failed
                   \/ \E i \in 1..Len(p.actions) :
                        p.actions[i].required /\ i \notin st.seen
                THEN [ns |-> Raise("SystemExit"), extras |-> <<>>]
                ELSE [ns |-> st.ns, extras |-> st.extras]))

\* parser.parse_args(args): unrecognized arguments are an error
parse_args(parser, args) ==
    Let(parse_known_args(parser, args), LAMBDA r :
        IF IsRaise(r.ns) \/ r.extras # <<>> THEN Raise("SystemExit") ELSE r.ns)

\* ------------------------------------------------------------ os.path
\* The process's working directory and the home directory of its user.
s_cwd == <<"/","c","w","d">>
s_userhome == <<"/","h","o","m","e","/","u">>

\* os.path.join(a, b)
path_join(a, b) ==
    Let2(a, b, LAMBDA x, y :
        IF StartsWith(y, <<"/">>) THEN y
        ELSE IF x = <<>> \/ EndsWith(x, <<"/">>) THEN x \o y
        ELSE x \o <<"/">> \o y)

\* os.path.expanduser(path), for "~" and "~/..."; HOME is not set in the
\* environments of this model, so the home directory is the user's own
expanduser(path) ==
    Let(path, LAMBDA x :
        IF ~StartsWith(x, <<"~">>) THEN x
        ELSE IF Len(x) = 1 \/ x[2] = "/" THEN s_userhome \o StrFrom(x, 1)
        ELSE x)

\* A file system is a dict from path to content: the node yaml.safe_load
\* gives for it (a Dict, Scalar(PyNone) for an empty document,
\* Raise("YAMLError") for a malformed one), or Scalar(text) for a text file.
path_exists(files, path) == Has(files, path)

\* ------------------------------------------------------------ config.py: methods
\* config(): the constructor without a parser, lines 77-82
config_new == Dict(<< <<lit.is_set, EmptyDict>> >>)

\* One round of the loop of __parse_args__ over the unrecognized tokens,
\* lines 325-338. st = [params, params_config]; params is
\* Raise("ValueError") when the unpacking of split("=") fails.
UnrecognizedOne(unrec, st) ==
    Let2(StrFrom(unrec, 2), StartsWith(unrec, lit.dashes), LAMBDA rest, dashed :
        IF dashed /\ Has(st.params, rest)
        THEN [st EXCEPT !.params = Put(@, rest, Scalar(PyTrue))]
        ELSE IF dashed
        THEN IF HasChar(rest, "=")
             THEN Let(StrSplit(rest, "="), LAMBDA kv :
                    IF Len(kv) = 2
                    THEN [st EXCEPT !.params_config = Put(@, kv[1], Scalar(kv[2]))]
                    ELSE [st EXCEPT !.params = Raise("ValueError")])
             ELSE [st EXCEPT !.params_config = Put(@, rest, Scalar(PyTrue))]
        ELSE st)

RECURSIVE UnrecognizedFrom(_, _, _)
UnrecognizedFrom(unrecognized, i, state) ==
    Let2(unrecognized, state, LAMBDA unrecs, st :
        IF IsRaise(st.params) \/ i > Len(unrecs) THEN st
        ELSE UnrecognizedFrom(unrecs, i + 1, UnrecognizedOne(unrecs[i], st)))

\* config.__parse_args__(args, parser, strict): [params, params_config], the
\* namespace (or the exception) and the class attribute params_config after it
__parse_args__(args, parser, strict, class_params_config) ==
    IF ~strict
    THEN Let(parse_known_args(parser, args), LAMBDA r :
            IF IsRaise(r.ns)
            THEN [params |-> r.ns, params_config |-> class_params_config]
            ELSE UnrecognizedFrom(r.extras, 1,
                    [params |-> r.ns, params_config |-> class_params_config]))
    ELSE [params |-> parse_args(parser, args), params_config |-> class_params_config]

\* config.__split_params__(params, _config): each dotted key is walked from
\* _config, a missing or None part becoming a new config()
RECURSIVE SplitFrom(_, _, _)
SplitFrom(_config, params, i) ==
    Let2(_config, params, LAMBDA c, p :
        IF IsRaise(c) \/ i > Len(p.items) THEN c
        ELSE SplitFrom(
                SetPath(c, StrSplit(p.items[i][1], "."), p.items[i][2], config_new),
                p, i + 1))

__split_params__(params, _config) == SplitFrom(_config, params, 1)

\* config.__get_required_args_from_parser(parser)
RECURSIVE RequiredFrom(_, _)
RequiredFrom(parser, i) ==
    Let(parser, LAMBDA p :
        IF i > Len(p.actions) THEN <<>>
        ELSE (IF p.actions[i].required
              THEN << (IF Len(p.actions[i].dest) > 1 THEN lit.dashes ELSE <<"-">>)
                        \o p.actions[i].dest >>
              ELSE <<>>)
             \o RequiredFrom(p, i + 1))

__get_required_args_from_parser(parser) == RequiredFrom(parser, 1)

\* ArgInAny with "arg == s" for "arg in s": the flag must be a token itself
ArgIsAny(arg, args) ==
    Let2(arg, args, LAMBDA a, ss : \E k \in 1..Len(ss) : ss[k] = a)

\* any(arg in s for s in args), line 476
ArgInAny(arg, args) ==
    Let2(arg, args, LAMBDA a, ss : \E k \in 1..Len(ss) : StrContains(ss[k], a))

\* the list comprehension of line 476
RECURSIVE MissingFrom(_, _, _)
MissingFrom(required_args, args, i) ==
    Let2(required_args, args, LAMBDA req, a :
        IF i > Len(req) THEN <<>>
        ELSE (IF ~ArgInAny(req[i], a) THEN <<req[i]>> ELSE <<>>)
             \o MissingFrom(req, a, i + 1))

\* config.__check_for_missing_required_args(parser, args)
__check_for_missing_required_args(parser, args) ==
    MissingFrom(__get_required_args_from_parser(parser), args, 1)

\* The key load_config_from_env_vars stores a variable under, lines 496-497
EnvKey(var) == StrReplace(StrLower(StrFrom(var, 6)), "_", ".")

RECURSIVE EnvFrom(_, _, _)
EnvFrom(environ, class_env_config, i) ==
    Let2(environ, class_env_config, LAMBDA env, c :
        IF i > Len(env.items) THEN c
        ELSE EnvFrom(env,
                IF StartsWith(env.items[i][1], lit.BT_)
                THEN Put(c, EnvKey(env.items[i][1]), env.items[i][2])
                ELSE c,
                i + 1))

\* config.load_config_from_env_vars(): the class attribute env_config after it
load_config_from_env_vars(environ, class_env_config) ==
    EnvFrom(environ, class_env_config, 1)

\* self.get(first, {}).get(second): a node, Scalar(PyNone) when the inner key
\* is missing, Raise("AttributeError") when self[first] is no dict
GetGet(tree, first, second) ==
    Let(IF Has(tree, first) THEN Get(tree, first) ELSE EmptyDict, LAMBDA outer :
        IF ~IsDict(outer) THEN Raise("AttributeError")
        ELSE GetOrNone(outer, second))

\* The part of load_generic_config after the path is known, lines 502-515
LoadGenericFile(config_file_yml, files, generic_config_before) ==
    Let(IF path_exists(files, config_file_yml)
        THEN Get(files, config_file_yml) ELSE EmptyDict,
        LAMBDA config_data :
            IF IsRaise(config_data) THEN config_data
            ELSE IF ~Truthy(config_data) THEN generic_config_before
            ELSE IF IsDict(config_data) THEN flatten_dict(config_data)
            ELSE Raise("AttributeError"))

\* config.load_generic_config(): the generic_config the instance reads after it
load_generic_config(tree, files, generic_config_before) ==
    Let(GetGet(tree, lit.config, lit.path), LAMBDA path :
        IF IsRaise(path) THEN path
        ELSE IF ~IsStr(path) THEN Raise("TypeError")
        ELSE LoadGenericFile(path_join(expanduser(path.val), lit.btcliconfig_yml),
                             files, generic_config_before))

\* load_active_profile without the message of line 542 and without the load
LoadProfileFileQuiet(profile_path, profile_name, files, profile_config_before) ==
    [profile_config |-> profile_config_before, printed |-> FALSE]

\* The part of load_active_profile after the pointer file is read, lines
\* 533-550
LoadProfileFile(profile_path, profile_name, files, profile_config_before) ==
    Let2(profile_name,
         expanduser(path_join(profile_path, profile_name \o lit.yml)),
         LAMBDA name, profile_file_yml :
            IF ~path_exists(files, profile_file_yml)
            THEN [profile_config |-> profile_config_before, printed |-> TRUE]
            ELSE Let(Get(files, profile_file_yml), LAMBDA profile_data :
                    IF IsRaise(profile_data)
                    THEN [profile_config |-> profile_data, printed |-> FALSE]
                    ELSE IF ~IsDict(profile_data)
                    THEN [profile_config |-> Raise("TypeError"), printed |-> FALSE]
                    ELSE [profile_config |->
                            flatten_dict(Put(profile_data, lit.profile_active,
                                             Scalar(name))),
                          printed |-> FALSE]))

\* config.load_active_profile(): [profile_config, printed], the
\* profile_config the instance reads after it and whether the "not found"
\* message was printed
load_active_profile(tree, files, profile_config_before) ==
    Let2(GetGet(tree, lit.profile, lit.path),
         [profile_config |-> profile_config_before, printed |-> FALSE],
         LAMBDA profile_path, unchanged :
            IF IsRaise(profile_path)
            THEN [profile_config |-> profile_path, printed |-> FALSE]
            ELSE IF ~Truthy(profile_path) THEN unchanged
            ELSE IF ~IsStr(profile_path)
            THEN [profile_config |-> Raise("TypeError"), printed |-> FALSE]
            ELSE Let(expanduser(path_join(profile_path.val, lit.btcliprofile)),
                     LAMBDA profile_name_holder :
                        IF ~path_exists(files, profile_name_holder) THEN unchanged
                        ELSE LoadProfileFile(profile_path.val,
                                StrStrip(Get(files, profile_name_holder).val),
                                files, profile_config_before)))

\* AllTrueFrom with False for True at line 270: every entry starts not set
RECURSIVE AllFalseFrom(_, _, _)
AllFalseFrom(tmp_is_set, flatten_config, i) ==
    Let2(tmp_is_set, flatten_config, LAMBDA tmp, flat :
        IF i > Len(flat.items) THEN tmp
        ELSE AllFalseFrom(Put(tmp, flat.items[i][1], Scalar(PyFalse)), flat, i + 1))

\* DowngradeFrom without the comparison of line 276: every path the
\* defaults have is downgraded
RECURSIVE DowngradeAllFrom(_, _, _, _)
DowngradeAllFrom(tmp_is_set, flat_defaults, flatten_config, i) ==
    Let3(tmp_is_set, flat_defaults, flatten_config, LAMBDA tmp, defaults, flat :
        IF i > Len(defaults.items) THEN tmp
        ELSE DowngradeAllFrom(
                IF Has(tmp, defaults.items[i][1])
                THEN Put(tmp, defaults.items[i][1], Scalar(PyFalse)) ELSE tmp,
                defaults, flat, i + 1))

\* The is-set map of lines 263-277: every leaf of the flattened config is
\* True, then False where the parsed default equals it.
RECURSIVE AllTrueFrom(_, _, _)
AllTrueFrom(tmp_is_set, flatten_config, i) ==
    Let2(tmp_is_set, flatten_config, LAMBDA tmp, flat :
        IF i > Len(flat.items) THEN tmp
        ELSE AllTrueFrom(Put(tmp, flat.items[i][1], Scalar(PyTrue)), flat, i + 1))

RECURSIVE DowngradeFrom(_, _, _, _)
DowngradeFrom(tmp_is_set, flat_defaults, flatten_config, i) ==
    Let3(tmp_is_set, flat_defaults, flatten_config, LAMBDA tmp, defaults, flat :
        IF i > Len(defaults.items) THEN tmp
        ELSE Let2(defaults.items[i][1], defaults.items[i][2], LAMBDA key, val :
                DowngradeFrom(
                    IF Has(tmp, key) /\ val = Get(flat, key)
                    THEN Put(tmp, key, Scalar(PyFalse)) ELSE tmp,
                    defaults, flat, i + 1)))

build_is_set(tree, default_params_dict) ==
    Let(flatten_dict(tree), LAMBDA flatten_config :
        DowngradeFrom(AllTrueFrom(EmptyDict, flatten_config, 1),
                      flatten_dict(default_params_dict), flatten_config, 1))

\* config.is_set(param_name)
is_set(tree, param_name) ==
    Let2(Get(tree, lit.is_set), param_name, LAMBDA m, name :
        IF ~Has(m, name) THEN FALSE ELSE Get(m, name) = Scalar(PyTrue))

\* ------------------------------------------------------------ inputs
\* The strs of the calls, the environments and the files: those of the unit
\* tests and a few beside them.
data ==
    [ test_arg |-> <<"t","e","s","t","_","a","r","g">>,
      required_arg |-> <<"r","e","q","u","i","r","e","d","_","a","r","g">>,
      generic_test |-> <<"g","e","n","e","r","i","c",".","t","e","s","t">>,
      profile_name |-> <<"p","r","o","f","i","l","e",".","n","a","m","e">>,
      unknown_arg |-> <<"u","n","k","n","o","w","n","_","a","r","g">>,
      default_value |-> <<"d","e","f","a","u","l","t","_","v","a","l","u","e">>,
      new_value |-> <<"n","e","w","_","v","a","l","u","e">>,
      file_value |-> <<"f","i","l","e","_","v","a","l","u","e">>,
      default_name |-> <<"d","e","f","a","u","l","t","_","n","a","m","e">>,
      env_value |-> <<"e","n","v","_","v","a","l","u","e">>,
      value |-> <<"v","a","l","u","e">>,
      env_config |-> <<"/","e","n","v","/","c","o","n","f","i","g">>,
      env_profile |-> <<"/","e","n","v","/","p","r","o","f","i","l","e">>,
      generic_path |-> <<"/","g","e","n","e","r","i","c","/","p","a","t","h">>,
      tok_profile |-> <<"/","t","o","k","/","p","r","o","f","i","l","e">>,
      profile1 |-> <<"p","r","o","f","i","l","e","1">>,
      profile_value |-> <<"p","r","o","f","i","l","e","_","v","a","l","u","e">>,
      key |-> <<"k","e","y">>,
      active |-> <<"a","c","t","i","v","e">>,
      name |-> <<"n","a","m","e">>,
      c_yml |-> <<"c",".","y","m","l">>,
      BT_TEST_VAR |-> <<"B","T","_","T","E","S","T","_","V","A","R">>,
      BT_CONFIG_PATH |-> <<"B","T","_","C","O","N","F","I","G","_","P","A","T","H">>,
      BT_PROFILE_PATH |-> <<"B","T","_","P","R","O","F","I","L","E","_","P","A","T","H">>,
      BT_CLIPROFILE_PATH |-> <<"B","T","_","C","L","I","P","R","O","F","I","L","E","_","P","A","T","H">>,
      BT_CLICONFIG_PATH |-> <<"B","T","_","C","L","I","C","O","N","F","I","G","_","P","A","T","H">>,
      PATH |-> <<"P","A","T","H">>,
      usr_bin |-> <<"/","u","s","r","/","b","i","n">>,
      test_var |-> <<"t","e","s","t",".","v","a","r">> ]

\* The number of config(parser, args, strict) calls one process makes.
MaxCalls == 2

\* The parsers of the unit tests: test_parse_args, test_check_for_missing_required_args
\* and add_args of test_config_merge_order.
ParserTest ==
    ArgumentParser(<< Action(data.test_arg, "store", Scalar(data.default_value), FALSE) >>)

ParserRequired ==
    ArgumentParser(<< Action(data.required_arg, "store", Scalar(PyNone), TRUE) >>)

ParserProfile ==
    ArgumentParser(<< Action(data.generic_test, "store", Scalar(data.default_name), FALSE),
                      Action(data.profile_name, "store", Scalar(data.default_name), FALSE),
                      Action(lit.profile_path, "store", Scalar(lit.bootstrap_profile_path), FALSE) >>)

Opt(name) == lit.dashes \o name

\* The calls: a parser, a token list and the strict argument.
Call(parser, args, strict) == [parser |-> parser, args |-> args, strict |-> strict]

CallSet ==
    { Call(ParserTest, <<>>, FALSE),
      Call(ParserTest, <<Opt(data.test_arg), data.new_value>>, FALSE),
      Call(ParserTest, <<Opt(data.test_arg), data.default_value>>, FALSE),
      Call(ParserTest, <<Opt(data.unknown_arg), data.value>>, FALSE),
      Call(ParserTest, <<Opt(data.unknown_arg), data.value>>, TRUE),
      Call(ParserTest, <<Opt(lit.strict), Opt(data.unknown_arg)>>, FALSE),
      Call(ParserTest, <<Opt(data.unknown_arg) \o <<"=">> \o data.value>>, FALSE),
      Call(ParserTest, <<Opt(data.unknown_arg) \o <<"=">> \o data.value
                            \o <<"=">> \o data.value>>, FALSE),
      Call(ParserTest, <<Opt(lit.config), data.c_yml>>, FALSE),
      Call(ParserTest, <<Opt(lit.config), data.c_yml, Opt(data.test_arg), data.default_value>>, FALSE),
      Call(ParserTest, <<Opt(lit.config), data.c_yml, Opt(data.test_arg), data.file_value>>, FALSE),
      Call(ParserRequired, <<>>, FALSE),
      Call(ParserRequired, <<Opt(data.required_arg), data.value>>, FALSE),
      Call(ParserRequired, <<Opt(data.required_arg) \o <<"=">> \o data.value>>, FALSE),
      Call(ParserRequired, <<Opt(data.required_arg) \o <<"_","x">>, data.value>>, FALSE),
      Call(ParserProfile, <<>>, FALSE),
      Call(ParserProfile, <<Opt(lit.profile_path), data.tok_profile>>, FALSE) }

\* The process environments (os.environ).

EnvironSet ==
    { EmptyDict,
      Dict(<< <<data.PATH, Str(data.usr_bin)>>, <<data.BT_TEST_VAR, Str(data.env_value)>> >>),
      Dict(<< <<data.BT_CONFIG_PATH, Str(data.env_config)>>,
              <<data.BT_PROFILE_PATH, Str(data.env_profile)>> >>),
      Dict(<< <<data.BT_CLICONFIG_PATH, Str(data.env_config)>>,
              <<data.BT_CLIPROFILE_PATH, Str(data.env_profile)>> >>) }

\* The documents of the files.
GenericDoc ==
    Dict(<< <<lit.profile, Dict(<< <<lit.path, Str(data.generic_path)>> >>)>>,
            <<data.test_arg, Str(data.file_value)>> >>)

\* the document of test_config_merge_order
MergeOrderDoc ==
    Dict(<< <<lit.profile, Dict(<< <<data.active, Str(data.profile1)>>,
                                 <<data.key, Str(data.profile_value)>>,
                                 <<lit.path, Str(data.generic_path)>> >>)>> >>)

ProfileDoc ==
    Dict(<< <<lit.profile, Dict(<< <<data.key, Str(data.profile_value)>> >>)>>,
            <<data.test_arg, Str(data.profile_value)>> >>)

DefaultsDoc == Dict(<< <<data.test_arg, Str(data.file_value)>> >>)

\* a profile that has a mapping where the generic file has a str
MappingDoc ==
    Dict(<< <<data.test_arg, Dict(<< <<data.key, Str(data.profile_value)>> >>)>> >>)

HomeConfigDir == expanduser(lit.bootstrap_config_path)
HomeProfileDir == expanduser(lit.bootstrap_profile_path)

\* The file systems.
FilesSet ==
    { EmptyDict,
      Dict(<< <<path_join(HomeConfigDir, lit.btcliconfig_yml), GenericDoc>> >>),
      Dict(<< <<path_join(data.env_config, lit.btcliconfig_yml), MergeOrderDoc>>,
              <<path_join(data.env_profile, lit.btcliprofile), Str(data.profile1)>>,
              <<path_join(data.env_profile, data.profile1 \o lit.yml), MergeOrderDoc>> >>),
      Dict(<< <<path_join(HomeConfigDir, lit.btcliconfig_yml), GenericDoc>>,
              <<path_join(HomeProfileDir, lit.btcliprofile), Str(data.profile1 \o <<"\n">>)>>,
              <<path_join(HomeProfileDir, data.profile1 \o lit.yml), ProfileDoc>> >>),
      Dict(<< <<path_join(HomeProfileDir, lit.btcliprofile), Str(data.profile1)>> >>),
      Dict(<< <<path_join(HomeProfileDir, lit.btcliprofile), Str(data.profile1)>>,
              <<path_join(HomeProfileDir, data.profile1 \o lit.yml), Scalar(PyNone)>> >>),
      Dict(<< <<path_join(HomeConfigDir, lit.btcliconfig_yml), GenericDoc>>,
              <<path_join(HomeProfileDir, lit.btcliprofile), Str(data.profile1)>>,
              <<path_join(HomeProfileDir, data.profile1 \o lit.yml), MappingDoc>> >>),
      Dict(<< <<path_join(HomeConfigDir, lit.btcliconfig_yml), Raise("YAMLError")>> >>),
      Dict(<< <<path_join(s_cwd, data.c_yml), DefaultsDoc>> >>) }

\* ------------------------------------------------------------ commands/profile.py
\* s.replace(old, new) for a str old that is not empty
RECURSIVE StrReplaceAll(_, _, _)
StrReplaceAll(s, old, new) ==
    Let(s, LAMBDA x :
        IF x = <<>> THEN <<>>
        ELSE IF StartsWith(x, old) THEN new \o StrReplaceAll(StrFrom(x, Len(old)), old, new)
        ELSE <<Head(x)>> \o StrReplaceAll(Tail(x), old, new))

\* del d[key]
Del(d, k) == Dict(SelectSeq(d.items, LAMBDA item : item[1] # k))

\* The names os.listdir(path) may give for the directory (path ends with
\* "/"), as a set: the order of os.listdir is any.
DirNames(files, path) ==
    { StrFrom(p, Len(path)) : p \in {q \in KeySet(files) : StartsWith(q, path)} }

\* the orders of a set of names
Orders(names) ==
    { order \in [1..Cardinality(names) -> names] :
        \A i, j \in 1..Cardinality(names) : order[i] = order[j] => i = j }

\* list_profiles(path), lines 19-32: the lists it may return, the names of
\* the directory that end with ".yml" in any order
list_profiles(files, path) ==
    Orders({profileFile \in DirNames(files, path) : EndsWith(profileFile, lit.yml)})

\* the loop of lines 40-45: the first profile that starts with the name
RECURSIVE FirstProfileFrom(_, _, _, _)
FirstProfileFrom(path, profiles, profile_base_name, i) ==
    IF i > Len(profiles) THEN Scalar(PyNone)
    ELSE IF StartsWith(profiles[i], profile_base_name)
    THEN Str(path_join(path, profiles[i]))
    ELSE FirstProfileFrom(path, profiles, profile_base_name, i + 1)

\* get_profile_file_path(path, profile_name), lines 35-45
get_profile_file_path(path, profile_name, profiles) ==
    FirstProfileFrom(path, profiles, StrReplaceAll(profile_name, lit.yml, <<>>), 1)

\* get_profile_path_from_config(cli), lines 48-52
get_profile_path_from_config(config, profiles) ==
    get_profile_file_path(expanduser(Get(Get(config, lit.profile), lit.path).val),
                          Get(Get(config, lit.profile), data.name).val, profiles)

\* open_profile(cli), lines 55-69: [profile_path, contents], both None where
\* no profile is found or its file does not load
open_profile(config, files, profiles) ==
    Let(get_profile_path_from_config(config, profiles), LAMBDA profile_path :
        IF IsNone(profile_path) \/ IsRaise(Get(files, profile_path.val))
        THEN [profile_path |-> Scalar(PyNone), contents |-> Scalar(PyNone)]
        ELSE [profile_path |-> profile_path, contents |-> Get(files, profile_path.val)])

\* The names the commands get as --profile.name, the directory of the
\* profiles, and what create writes for --values profile.key=profile_value.
ProfileNames == { data.profile1, data.profile1 \o <<"0">>, data.profile1 \o lit.yml }

\* The paths of the files of the directory, in the order this model keeps a
\* file system in (a directory has no order of its own).
ProfilePaths ==
    << path_join(HomeProfileDir, lit.btcliprofile),
       path_join(HomeProfileDir, data.profile1 \o lit.yml),
       path_join(HomeProfileDir, data.profile1 \o <<"0">> \o lit.yml),
       path_join(HomeProfileDir, data.profile1 \o lit.yml \o lit.yml) >>

\* open(path, "w") and a write of the content
WriteFile(files, path, content) ==
    Let(Put(files, path, content), LAMBDA written :
        Dict([i \in 1..Len(SelectSeq(ProfilePaths, LAMBDA q : Has(written, q))) |->
                Let(SelectSeq(ProfilePaths, LAMBDA q : Has(written, q))[i],
                    LAMBDA q : <<q, Get(written, q)>>)]))

CreatedDoc == unflatten_dict(Dict(<< <<lit.profile \o <<".">> \o data.key, Str(data.profile_value)>> >>))

\* cli.config as the parser of a profile command makes it
CliConfig(name) ==
    Dict(<< <<lit.profile, Dict(<< <<data.name, Str(name)>>,
                                 <<lit.path, Str(lit.bootstrap_profile_path)>> >>)>> >>)

\* The directories a sequence of commands may start from.
ProfileDirSet ==
    { EmptyDict,
      Dict(<< <<path_join(HomeProfileDir, data.profile1 \o lit.yml), ProfileDoc>> >>),
      Dict(<< <<path_join(HomeProfileDir, data.profile1 \o lit.yml), ProfileDoc>>,
              <<path_join(HomeProfileDir, data.profile1 \o <<"0">> \o lit.yml), ProfileDoc>> >>),
      Dict(<< <<path_join(HomeProfileDir, data.profile1 \o lit.yml), Raise("YAMLError")>> >>) }

\* ------------------------------------------------------------ the class of a node
\* A mapping of the tree is a config instance (a DefaultMunch) or a plain
\* dict. The value of a tree at a sequence of keys; Raise("KeyError") where
\* a key is missing.
RECURSIVE Lookup(_, _)
Lookup(tree, parts) ==
    IF parts = <<>> THEN tree
    ELSE IF IsDict(tree) /\ Has(tree, Head(parts))
    THEN Lookup(Get(tree, Head(parts)), Tail(parts))
    ELSE Raise("KeyError")

\* __split_params__, line 295: every mapping it makes under the root is a
\* config(); the config instances of the tree it returns
SplitNodes(params, tree) ==
    {<<>>} \cup
    { parts \in UNION { { SubSeq(StrSplit(key, "."), 1, i) :
                            i \in 1..(Len(StrSplit(key, ".")) - 1) } :
                        key \in KeySet(params) } :
        IsDict(Lookup(tree, parts)) }

\* _merge(a, b), lines 397-404: a mapping of a stays the object it is unless
\* b has a value that is no mapping at its path or above it, which line 402
\* stores in its place; what line 404 stores is a dict of b. The config
\* instances of a after the merge.
KeptNodes(nodes, b) ==
    { p \in nodes : \A i \in 1..Len(p) : ~IsScalar(Lookup(b, SubSeq(p, 1, i))) }

\* node[key] and node.key for the mapping at the path: a config instance
\* answers a missing key with its default, which is None for the root of
\* these calls (line 77) and for every config() of line 295; a plain dict
\* raises KeyError
ReadKey(tree, nodes, path, key) ==
    Let(Lookup(tree, path), LAMBDA node :
        IF Has(node, key) THEN Get(node, key)
        ELSE IF path \in nodes THEN Scalar(PyNone)
        ELSE Raise("KeyError"))

\* ------------------------------------------------------------ objects
\* The merges once more, on objects instead of values. A heap is a sequence
\* of dict objects, the address of an object being its index; a dict object
\* is a sequence of <<key, cell>> and a cell holds the address of a dict
\* object (ref > 0) or a scalar (ref = 0, val).
RefCell(ref) == [ref |-> ref, val |-> <<>>]
ValCell(v) == [ref |-> 0, val |-> v]

\* key in obj, obj[key] and obj[key] = cell for a dict object
ObjHas(obj, key) == \E i \in 1..Len(obj) : obj[i][1] = key
ObjGet(obj, key) == obj[CHOOSE i \in 1..Len(obj) : obj[i][1] = key][2]
ObjPut(obj, key, cell) ==
    Let3(obj, key, cell, LAMBDA o, k, c :
        IF ObjHas(o, k)
        THEN [i \in 1..Len(o) |-> IF o[i][1] = k THEN <<k, c>> ELSE o[i]]
        ELSE Append(o, <<k, c>>))

\* heap[ref][key] = cell
HeapPut(h, ref, key, cell) ==
    Let2(h, ref, LAMBDA x, r : [x EXCEPT ![r] = ObjPut(@, key, cell)])

\* A dict value built as new objects: [h, ref], the heap with them and the
\* address of the top one.
RECURSIVE NewItems(_, _, _)
RECURSIVE New(_, _)
NewItems(h, items, i) ==
    IF i > Len(items) THEN [h |-> h, obj |-> <<>>]
    ELSE Let(IF IsDict(items[i][2]) THEN New(h, items[i][2]) ELSE [h |-> h, ref |-> 0],
             LAMBDA sub :
                Let(NewItems(sub.h, items, i + 1), LAMBDA rest :
                    [h |-> rest.h,
                     obj |-> << <<items[i][1],
                                  IF sub.ref > 0 THEN RefCell(sub.ref)
                                  ELSE ValCell(items[i][2].val)>> >> \o rest.obj]))

New(h, tree) ==
    Let(NewItems(h, tree.items, 1), LAMBDA r :
        [h |-> Append(r.h, r.obj), ref |-> Len(r.h) + 1])

\* The value of the dict object at an address.
RECURSIVE ValueOf(_, _)
ValueOf(h, ref) ==
    Let2(h, ref, LAMBDA x, r :
        Dict([i \in 1..Len(x[r]) |->
                <<x[r][i][1],
                  IF x[r][i][2].ref > 0 THEN ValueOf(x, x[r][i][2].ref)
                  ELSE Scalar(x[r][i][2].val)>>]))

\* The addresses of the objects that make up the value at an address.
RECURSIVE Reach(_, _)
Reach(h, ref) ==
    Let2(h, ref, LAMBDA x, r :
        {r} \cup UNION {Reach(x, x[r][i][2].ref) :
                            i \in {j \in 1..Len(x[r]) : x[r][j][2].ref > 0}})

\* deepcopy without the copy: the object itself
SameObject(h, ref) == [h |-> h, ref |-> ref]

\* copy.deepcopy(obj) of a dict object: new objects of the same value
deepcopy(h, ref) == New(h, ValueOf(h, ref))

\* config.deep_merge(dict1, dict2) on objects: [h, ref], the heap after the
\* call and the address of the dict it returns
RECURSIVE HeapDeepMergeFrom(_, _, _, _)
RECURSIVE HeapDeepMerge(_, _, _)
HeapDeepMergeFrom(h, merged, dict2, i) ==
    Let(h, LAMBDA x :
        IF i > Len(x[dict2]) THEN [h |-> x, ref |-> merged]
        ELSE Let2(x[dict2][i][1], x[dict2][i][2], LAMBDA key, value :
                IF ObjHas(x[merged], key) /\ ObjGet(x[merged], key).ref > 0
                                           /\ value.ref > 0
                THEN Let(HeapDeepMerge(x, ObjGet(x[merged], key).ref, value.ref),
                         LAMBDA sub :
                            HeapDeepMergeFrom(
                                HeapPut(sub.h, merged, key, RefCell(sub.ref)),
                                merged, dict2, i + 1))
                ELSE IF value.ref > 0
                THEN Let(deepcopy(x, value.ref), LAMBDA copy :
                            HeapDeepMergeFrom(
                                HeapPut(copy.h, merged, key, RefCell(copy.ref)),
                                merged, dict2, i + 1))
                ELSE HeapDeepMergeFrom(HeapPut(x, merged, key, value),
                                       merged, dict2, i + 1)))

\* deep_merge with merged = {} in place of the copy of dict1
HeapDeepMergeIntoNew(h, dict1, dict2) ==
    Let(New(h, EmptyDict), LAMBDA merged :
        HeapDeepMergeFrom(merged.h, merged.ref, dict2, 1))

HeapDeepMerge(h, dict1, dict2) ==
    Let(deepcopy(h, dict1), LAMBDA merged :
        HeapDeepMergeFrom(merged.h, merged.ref, dict2, 1))

\* config._merge(a, b) on objects: the heap after the call; a is changed in
\* place and is the dict returned. a[key] = b[key] stores the object of b
\* itself.
RECURSIVE HeapMergeFrom(_, _, _, _)
\* _merge that keeps the value of a where the two values are not both dicts
HeapMergeKeepsFirstFrom(h, a, b, i) ==
    Let(h, LAMBDA x :
        IF i > Len(x[b]) THEN x
        ELSE Let2(x[b][i][1], x[b][i][2], LAMBDA key, value :
                IF ObjHas(x[a], key) /\ ObjGet(x[a], key).ref > 0 /\ value.ref > 0
                THEN HeapMergeFrom(
                        HeapMergeFrom(x, ObjGet(x[a], key).ref, value.ref, 1),
                        a, b, i + 1)
                ELSE IF ObjHas(x[a], key)
                THEN HeapMergeFrom(x, a, b, i + 1)
                ELSE HeapMergeFrom(HeapPut(x, a, key, value), a, b, i + 1)))

HeapMergeFrom(h, a, b, i) ==
    Let(h, LAMBDA x :
        IF i > Len(x[b]) THEN x
        ELSE Let2(x[b][i][1], x[b][i][2], LAMBDA key, value :
                IF ObjHas(x[a], key) /\ ObjGet(x[a], key).ref > 0 /\ value.ref > 0
                THEN HeapMergeFrom(
                        HeapMergeFrom(x, ObjGet(x[a], key).ref, value.ref, 1),
                        a, b, i + 1)
                ELSE HeapMergeFrom(HeapPut(x, a, key, value), a, b, i + 1)))

HeapMerge(h, a, b) == HeapMergeFrom(h, a, b, 1)

\* config.merge_all(configs): result = cls(), then result.merge(cfg) for each
\* cfg of the list; [h, ref]
RECURSIVE MergeAllFrom(_, _, _, _)
MergeAllFrom(h, result, configs, i) ==
    IF i > Len(configs) THEN [h |-> h, ref |-> result]
    ELSE MergeAllFrom(HeapMerge(h, result, configs[i]), result, configs, i + 1)

merge_all(h, configs) ==
    Let(New(h, config_new), LAMBDA result :
        MergeAllFrom(result.h, result.ref, configs, 1))

\* ------------------------------------------------------------ the codec and the merges alone
\* flatten_dict, unflatten_dict, deep_merge, _merge and merge_all applied to
\* dicts drawn from bounded sets.

\* The number of entries of a flat dict, and the number of codec calls applied
\* one after the other.
MaxLen == 2
MaxSteps == 2

\* The dotted keys and the scalar values (a str, None, True and a number) of
\* the flat dicts.
FlatKeys == { <<"a">>, <<"b">>, <<"a", ".", "b">>, <<"a", ".", "c">>, <<".", "a">> }
FlatValues == { Str(<<"x">>), Scalar(PyNone), Scalar(PyTrue), Scalar(<<"<1>">>) }

\* the flat dicts of n entries, in every insertion order
RECURSIVE FlatMapsOf(_)
FlatMapsOf(n) ==
    IF n = 0 THEN {EmptyDict}
    ELSE UNION { { Dict(Append(m.items, <<k, v>>)) :
                        k \in FlatKeys \ KeySet(m), v \in FlatValues } :
                 m \in FlatMapsOf(n - 1) }

FlatMaps == UNION { FlatMapsOf(n) : n \in 0..MaxLen }

\* The nested dicts the merges are applied to.
MergeTrees ==
    Let3(<<"a">>, <<"b">>, <<"p">>, LAMBDA a, b, p :
     Let3(<<"q">>, Str(<<"x">>), Str(<<"y">>), LAMBDA q, x, y :
        { EmptyDict,
          Dict(<< <<a, x>> >>),
          Dict(<< <<a, Scalar(PyNone)>>, <<b, y>> >>),
          Dict(<< <<a, EmptyDict>> >>),
          Dict(<< <<a, Dict(<< <<p, x>> >>)>> >>),
          Dict(<< <<a, Dict(<< <<p, y>>, <<q, y>> >>)>>, <<b, x>> >>),
          Dict(<< <<b, y>>, <<a, Dict(<< <<q, x>> >>)>> >>),
          Dict(<< <<a, Dict(<< <<p, Dict(<< <<q, x>> >>)>> >>)>> >>),
          Dict(<< <<a, Dict(<< <<p, Dict(<< <<q, y>>, <<a, y>> >>)>>, <<q, x>> >>)>>,
                  <<b, Dict(<< <<p, x>> >>)>> >>),
          Dict(<< <<b, Dict(<< <<p, y>>, <<q, Scalar(PyNone)>> >>)>> >>) }))

\* The arguments of one application: one dict, two or three.
Inputs ==
    { <<t>> : t \in FlatMaps \cup MergeTrees }
    \cup (MergeTrees \X MergeTrees)
    \cup (MergeTrees \X MergeTrees \X MergeTrees)

\* ------------------------------------------------------------ state
VARIABLES
    pc,                 \* where the running config.__init__ is; "idle" between calls
    calls,              \* the number of calls started
    parser,             \* the caller's parser object
    args,               \* the token list of the call
    strict_arg,         \* the strict argument of the call
    environ,            \* os.environ during the call
    files,              \* the file system during the call
    self,               \* the config instance (a DefaultMunch: a dict)
    strict,             \* the local strict after line 156
    params,             \* the namespace of line 169
    default_params,     \* the namespace of line 192
    params_no_defaults, \* the namespace of line 224
    defaults_and_env,   \* the local of line 241
    env_config,         \* the class attribute config.env_config
    params_config,      \* the class attribute config.params_config
    generic_config,     \* self.generic_config as the instance reads it
    profile_config,     \* self.profile_config as the instance reads it
    raised,             \* the exception that left __init__: [name, missing]
    printed,            \* whether "Profile file ... not found." was printed
    profile_path,       \* the local profile_path of load_active_profile, line 518
    munch_nodes         \* the paths of self whose node is a config instance

\* The state of the codec and the merges alone.
VARIABLES
    op,                 \* the functions applied so far, by name
    input,              \* the arguments: a sequence of dicts
    heap,               \* the dict objects, where a function works on objects
    refs,               \* the addresses of the arguments and of the result
    out                 \* the value returned last

\* The state of BittensorNTPClient.get_current_ntp_time.
VARIABLES
    ntp_pc,             \* where the call is: "idle" before, "returned" after
    ntp_instance,       \* whether BittensorNTPClient._instance is set
    retries,            \* the argument
    attempts,           \* the local attempts
    requested,          \* the servers asked so far in the call, in order
    current_time        \* what the call returned: [time, source]

dataVars == << op, input, heap, refs, out >>

ntpVars == << ntp_pc, ntp_instance, retries, attempts, requested, current_time >>

configVars == << pc, calls, parser, args, strict_arg, environ, files, self, strict, params,
                 default_params, params_no_defaults, defaults_and_env, env_config,
                 params_config, generic_config, profile_config, raised, printed,
                 profile_path, munch_nodes >>

vars == << configVars, dataVars, ntpVars >>

NoException == [name |-> "", missing |-> <<>>]
Exception(name) == [name |-> name, missing |-> <<>>]

\* The instance and the locals before a call; the class attributes are not
\* part of it.
NoCall ==
    /\ parser = ArgumentParser(<<>>)
    /\ args = <<>>
    /\ strict_arg = FALSE
    /\ environ = EmptyDict
    /\ files = EmptyDict
    /\ self = EmptyDict
    /\ strict = FALSE
    /\ params = EmptyDict
    /\ default_params = EmptyDict
    /\ params_no_defaults = EmptyDict
    /\ defaults_and_env = EmptyDict
    /\ generic_config = EmptyDict
    /\ profile_config = EmptyDict
    /\ raised = NoException
    /\ printed = FALSE
    /\ profile_path = Scalar(PyNone)
    /\ munch_nodes = {}

\* No application is running.
NoData ==
    /\ op = <<>>
    /\ input = <<>>
    /\ heap = <<>>
    /\ refs = <<>>
    /\ out = EmptyDict

\* what a call of get_current_ntp_time returns: nothing yet
NoTime == [time |-> 0, source |-> ""]

\* get_current_ntp_time has not been called and no client exists.
NoNTP ==
    /\ ntp_pc = "idle"
    /\ ntp_instance = FALSE
    /\ retries = 0
    /\ attempts = 0
    /\ requested = <<>>
    /\ current_time = NoTime

Init ==
    /\ pc = "idle"
    /\ calls = 0
    /\ env_config = EmptyDict
    /\ params_config = EmptyDict
    /\ NoCall
    /\ NoData
    /\ NoNTP

\* ------------------------------------------------------------ config.__init__
\* The arguments __init__ adds to the caller's parser, lines 84-127.
UniversalActions ==
    << Action(lit.config, "store", Scalar(PyNone), FALSE),
       Action(lit.strict, "store_true", Scalar(PyFalse), FALSE),
       Action(lit.no_version_checking, "store_true", Scalar(PyFalse), FALSE),
       Action(lit.no_prompt, "store_true", Scalar(PyFalse), FALSE) >>

RECURSIVE AddAllFrom(_, _, _)
AddAllFrom(parser_in, actions, i) ==
    Let(parser_in, LAMBDA p :
        IF i > Len(actions) THEN p
        ELSE AddAllFrom(add_argument(p, actions[i]), actions, i + 1))

\* The bootstrap defaults of lines 229-234.
BootstrapDefaults ==
    Dict(<< <<lit.profile, Dict(<< <<lit.path, Str(lit.bootstrap_profile_path)>> >>)>>,
            <<lit.config, Dict(<< <<lit.path, Str(lit.bootstrap_config_path)>> >>)>> >>)

\* The parser of lines 180-198: every parsed default becomes SUPPRESS and the
\* parser-level defaults are cleared.
RECURSIVE SuppressFrom(_, _)
SuppressFrom(keys, i) ==
    IF i > Len(keys) THEN EmptyDict
    ELSE Put(SuppressFrom(keys, i + 1), keys[i], Scalar(SUPPRESS))

ParserNoDefaults(parser_in, default_params_dict) ==
    [set_defaults(parser_in, SuppressFrom(Keys(default_params_dict), 1))
        EXCEPT !.defaults = EmptyDict]

\* The token list of lines 183-189: the command and the subcommand of the config
DefaultParamArgs(tree) ==
    Let2(GetOrNone(tree, lit.command), GetOrNone(tree, lit.subcommand),
         LAMBDA command, subcommand :
            IF ~IsNone(command) /\ ~IsNone(subcommand)
            THEN <<command.val, subcommand.val>>
            ELSE IF ~IsNone(command) THEN <<command.val>>
            ELSE <<>>)

\* The path of the defaults file of lines 141-149: <<>> for None
ConfigFilePath(first) ==
    Let(IF IsRaise(first.ns) THEN Scalar(PyNone) ELSE GetOrNone(first.ns, lit.config),
        LAMBDA config_value :
            IF IsStr(config_value)
            THEN expanduser(s_cwd \o <<"/">> \o config_value.val)
            ELSE <<>>)

\* The parser after lines 158-166: a defaults file that loads as a mapping
\* sets the parser's defaults; any failure is printed and swallowed
ParserWithFileDefaults(parser_in, config_file_path, fs) ==
    Let(IF config_file_path # <<>> /\ path_exists(fs, config_file_path)
        THEN Get(fs, config_file_path)
        ELSE Raise("FileNotFoundError"),
        LAMBDA loaded : IF IsDict(loaded) THEN set_defaults(parser_in, loaded)
                        ELSE parser_in)

\* MergedConfig with the operands of the inner deep_merge of lines 255-258
\* exchanged: the files above the tokens
MergedConfigFilesLast(generic, profile, tokens, defaults_env) ==
    Let2(unflatten_dict(deep_merge(generic, profile)), unflatten_dict(tokens),
         LAMBDA from_files, from_tokens :
            IF IsRaise(from_files) \/ IsRaise(from_tokens) THEN Raise("TypeError")
            ELSE deep_merge(defaults_env, deep_merge(from_tokens, from_files)))

\* the local merged_config of lines 251-259
MergedConfig(generic, profile, tokens, defaults_env) ==
    Let2(unflatten_dict(deep_merge(generic, profile)), unflatten_dict(tokens),
         LAMBDA from_files, from_tokens :
            IF IsRaise(from_files) \/ IsRaise(from_tokens) THEN Raise("TypeError")
            ELSE deep_merge(defaults_env, deep_merge(from_files, from_tokens)))

\* __init__ leaves with an exception: the instance is never bound
Fail(exception) ==
    /\ pc' = "failed"
    /\ raised' = exception

\* config(parser, args, strict), lines 70-131: the new instance holds its
\* empty is-set map and the caller's parser gets the universal arguments.
Begin ==
    /\ UNCHANGED << dataVars, ntpVars >>
    /\ pc = "idle"
    /\ calls < MaxCalls
    /\ \E c \in CallSet, e \in EnvironSet, f \in FilesSet :
        /\ parser' = AddAllFrom(c.parser, UniversalActions, 1)
        /\ args' = c.args
        /\ strict_arg' = c.strict
        /\ environ' = e
        /\ files' = f
    /\ self' = config_new
    /\ munch_nodes' = {<<>>}
    /\ calls' = calls + 1
    /\ pc' = "check"
    /\ UNCHANGED << profile_path, strict, params, default_params, params_no_defaults, defaults_and_env,
                    env_config, params_config, generic_config, profile_config,
                    raised, printed >>

\* lines 133-139
CheckRequired ==
    /\ UNCHANGED << dataVars, ntpVars >>
    /\ pc = "check"
    /\ \E missing_required_args \in {__check_for_missing_required_args(parser, args)} :
           IF missing_required_args # <<>>
           THEN Fail([name |-> "ValueError", missing |-> missing_required_args])
           ELSE pc' = "parse" /\ UNCHANGED raised
    /\ UNCHANGED << calls, parser, args, strict_arg, environ, files, self, strict, params,
                    default_params, params_no_defaults, defaults_and_env, env_config,
                    params_config, generic_config, profile_config, printed,
                    profile_path, munch_nodes >>

\* lines 141-174: the --config defaults file, the two parses and the split.
\* SystemExit is no Exception: the except clause of line 148 lets it pass.
ParseArgs ==
    /\ UNCHANGED << dataVars, ntpVars >>
    /\ pc = "parse"
    /\ \E first \in {parse_known_args(parser, args)} :
       \E config_params \in {__parse_args__(args, parser, FALSE, params_config)} :
           IF IsRaise(first.ns)
           THEN Fail(Exception(first.ns.val[1]))
                /\ UNCHANGED << parser, strict, params, self, params_config, munch_nodes >>
           ELSE IF IsRaise(config_params.params)
           THEN Fail(Exception(config_params.params.val[1]))
                /\ params_config' = config_params.params_config
                /\ UNCHANGED << parser, strict, params, self, munch_nodes >>
           ELSE
             \E strict_now \in
                    {Truthy(GetOrNone(config_params.params, lit.strict)) \/ strict_arg} :
             \E parser_now \in
                    {ParserWithFileDefaults(parser, ConfigFilePath(first), files)} :
             \E second \in {__parse_args__(args, parser_now, strict_now,
                                           config_params.params_config)} :
             \E tree \in {IF IsRaise(second.params) THEN second.params
                          ELSE __split_params__(second.params, self)} :
                /\ params_config' = second.params_config
                /\ parser' = parser_now
                /\ strict' = strict_now
                /\ IF IsRaise(tree)
                   THEN Fail(Exception(tree.val[1]))
                        /\ UNCHANGED << params, self, munch_nodes >>
                   ELSE /\ pc' = "defaults"
                        /\ params' = second.params
                        /\ self' = tree
                        /\ munch_nodes' = SplitNodes(second.params, tree)
                        /\ UNCHANGED raised
    /\ UNCHANGED << calls, args, strict_arg, environ, files, default_params,
                    params_no_defaults, defaults_and_env, env_config, generic_config,
                    profile_config, printed, profile_path >>

\* lines 176-226: the parse of the defaults alone and the parse with every
\* default suppressed (the parsers of this model have no subparsers)
ParseDefaults ==
    /\ UNCHANGED << dataVars, ntpVars >>
    /\ pc = "defaults"
    /\ \E tree \in {Put(self, lit.is_set, EmptyDict)} :
       \E parsed_defaults \in {parse_args(parser, DefaultParamArgs(tree))} :
        /\ self' = tree
        /\ IF IsRaise(parsed_defaults)
           THEN Fail(Exception(parsed_defaults.val[1]))
                /\ UNCHANGED << default_params, params_no_defaults, params_config >>
           ELSE \E third \in {__parse_args__(args,
                                    ParserNoDefaults(parser, parsed_defaults),
                                    strict, params_config)} :
                /\ default_params' = parsed_defaults
                /\ params_config' = third.params_config
                /\ IF IsRaise(third.params)
                   THEN Fail(Exception(third.params.val[1]))
                        /\ UNCHANGED params_no_defaults
                   ELSE /\ pc' = "bootstrap"
                        /\ params_no_defaults' = third.params
                        /\ UNCHANGED raised
    /\ UNCHANGED << calls, parser, args, strict_arg, environ, files, strict, params,
                    defaults_and_env, env_config, generic_config, profile_config, printed,
                    profile_path, munch_nodes >>

\* lines 229-234
MergeBootstrap ==
    /\ UNCHANGED << dataVars, ntpVars >>
    /\ pc = "bootstrap"
    /\ self' = _merge(self, BootstrapDefaults)
    /\ munch_nodes' = KeptNodes(munch_nodes, BootstrapDefaults)
    /\ pc' = "env"
    /\ UNCHANGED << calls, parser, args, strict_arg, environ, files, strict, params,
                    default_params, params_no_defaults, defaults_and_env, env_config,
                    params_config, generic_config, profile_config, raised, printed,
                    profile_path >>

\* line 237
LoadEnv ==
    /\ UNCHANGED << dataVars, ntpVars >>
    /\ pc = "env"
    /\ env_config' = load_config_from_env_vars(environ, env_config)
    /\ pc' = "generic"
    /\ UNCHANGED << calls, parser, args, strict_arg, environ, files, self, strict, params,
                    default_params, params_no_defaults, defaults_and_env,
                    params_config, generic_config, profile_config, raised, printed,
                    profile_path, munch_nodes >>

\* line 240
LoadGeneric ==
    /\ UNCHANGED << dataVars, ntpVars >>
    /\ pc = "generic"
    /\ \E loaded \in {load_generic_config(self, files, generic_config)} :
           IF IsRaise(loaded)
           THEN Fail(Exception(loaded.val[1])) /\ UNCHANGED generic_config
           ELSE pc' = "defaults_and_env" /\ generic_config' = loaded /\ UNCHANGED raised
    /\ UNCHANGED << calls, parser, args, strict_arg, environ, files, self, strict, params,
                    default_params, params_no_defaults, defaults_and_env, env_config,
                    params_config, profile_config, printed, profile_path, munch_nodes >>

\* lines 241-246
MergeDefaultsAndEnv ==
    /\ UNCHANGED << dataVars, ntpVars >>
    /\ pc = "defaults_and_env"
    /\ \E defaults \in {unflatten_dict(default_params)} :
       \E env \in {unflatten_dict(env_config)} :
           IF IsRaise(defaults) \/ IsRaise(env)
           THEN Fail(Exception("TypeError"))
                /\ UNCHANGED << defaults_and_env, self, munch_nodes >>
           ELSE \E merged \in {deep_merge(defaults, env)} :
                /\ defaults_and_env' = merged
                /\ self' = _merge(self, merged)
                /\ munch_nodes' = KeptNodes(munch_nodes, merged)
                /\ pc' = "profile"
                /\ UNCHANGED raised
    /\ UNCHANGED << calls, parser, args, strict_arg, environ, files, strict, params,
                    default_params, params_no_defaults, env_config, params_config,
                    generic_config, profile_config, printed, profile_path >>

\* line 249
LoadProfile ==
    /\ UNCHANGED << dataVars, ntpVars >>
    /\ pc = "profile"
    /\ profile_path' = GetGet(self, lit.profile, lit.path)
    /\ \E loaded \in {load_active_profile(self, files, profile_config)} :
           IF IsRaise(loaded.profile_config)
           THEN Fail(Exception(loaded.profile_config.val[1]))
                /\ UNCHANGED << profile_config, printed >>
           ELSE /\ pc' = "merge"
                /\ profile_config' = loaded.profile_config
                /\ printed' = loaded.printed
                /\ UNCHANGED raised
    /\ UNCHANGED << calls, parser, args, strict_arg, environ, files, self, strict, params,
                    default_params, params_no_defaults, defaults_and_env, env_config,
                    params_config, generic_config, munch_nodes >>

\* lines 251-261
MergeAll ==
    /\ UNCHANGED << dataVars, ntpVars >>
    /\ pc = "merge"
    /\ \E merged_config \in {MergedConfig(generic_config, profile_config,
                                          params_no_defaults, defaults_and_env)} :
           IF IsRaise(merged_config)
           THEN Fail(Exception("TypeError")) /\ UNCHANGED << self, munch_nodes >>
           ELSE /\ self' = _merge(self, merged_config)
                /\ munch_nodes' = KeptNodes(munch_nodes, merged_config)
                /\ pc' = "is_set"
                /\ UNCHANGED raised
    /\ UNCHANGED << calls, parser, args, strict_arg, environ, files, strict, params,
                    default_params, params_no_defaults, defaults_and_env, env_config,
                    params_config, generic_config, profile_config, printed, profile_path >>

\* lines 263-279
BuildIsSet ==
    /\ UNCHANGED << dataVars, ntpVars >>
    /\ pc = "is_set"
    /\ self' = Put(self, lit.is_set, build_is_set(self, default_params))
    /\ pc' = "done"
    /\ UNCHANGED << calls, parser, args, strict_arg, environ, files, strict, params,
                    default_params, params_no_defaults, defaults_and_env, env_config,
                    params_config, generic_config, profile_config, raised, printed,
                    profile_path, munch_nodes >>

\* The call is over: the caller has the config, or the exception. The class
\* attributes env_config and params_config stay as the call left them.
Return ==
    /\ UNCHANGED << dataVars, ntpVars >>
    /\ pc \in {"done", "failed"}
    /\ pc' = "idle"
    /\ parser' = ArgumentParser(<<>>)
    /\ args' = <<>>
    /\ strict_arg' = FALSE
    /\ environ' = EmptyDict
    /\ files' = EmptyDict
    /\ self' = EmptyDict
    /\ strict' = FALSE
    /\ params' = EmptyDict
    /\ default_params' = EmptyDict
    /\ params_no_defaults' = EmptyDict
    /\ defaults_and_env' = EmptyDict
    /\ generic_config' = EmptyDict
    /\ profile_config' = EmptyDict
    /\ raised' = NoException
    /\ printed' = FALSE
    /\ profile_path' = Scalar(PyNone)
    /\ munch_nodes' = {}
    /\ UNCHANGED << calls, env_config, params_config >>

Next ==
    \/ Begin
    \/ CheckRequired
    \/ ParseArgs
    \/ ParseDefaults
    \/ MergeBootstrap
    \/ LoadEnv
    \/ LoadGeneric
    \/ MergeDefaultsAndEnv
    \/ LoadProfile
    \/ MergeAll
    \/ BuildIsSet
    \/ Return

Spec == Init /\ [][Next]_vars

\* ------------------------------------------------------------ the codec and the merges alone: steps
InitData ==
    /\ pc = "idle"
    /\ calls = 0
    /\ env_config = EmptyDict
    /\ params_config = EmptyDict
    /\ NoCall
    /\ op = <<>>
    /\ input \in Inputs
    /\ heap = <<>>
    /\ refs = <<>>
    /\ out = EmptyDict
    /\ NoNTP

\* the dict the next codec call gets: the argument, or the dict returned last
Current == IF op = <<>> THEN input[1] ELSE out

\* out = flatten_dict(current)
Flatten ==
    /\ Len(input) = 1
    /\ Len(op) < MaxSteps
    /\ IsDict(Current)
    /\ op' = Append(op, "flatten_dict")
    /\ out' = flatten_dict(Current)
    /\ UNCHANGED << input, heap, refs, configVars, ntpVars >>

\* out = unflatten_dict(current)
Unflatten ==
    /\ Len(input) = 1
    /\ Len(op) < MaxSteps
    /\ IsDict(Current)
    /\ op' = Append(op, "unflatten_dict")
    /\ out' = unflatten_dict(Current)
    /\ UNCHANGED << input, heap, refs, configVars, ntpVars >>

\* out = deep_merge(deep_merge(a, b), c) and deep_merge(a, deep_merge(b, c))
DeepMergeThree ==
    /\ Len(input) = 3
    /\ op = <<>>
    /\ op' = <<"deep_merge3">>
    /\ out' = << deep_merge(deep_merge(input[1], input[2]), input[3]),
                 deep_merge(input[1], deep_merge(input[2], input[3])) >>
    /\ UNCHANGED << input, heap, refs, configVars, ntpVars >>

\* merged = deep_merge(a, b) for two dict objects a and b
DeepMerge ==
    /\ Len(input) = 2
    /\ op = <<>>
    /\ \E a \in {New(<<>>, input[1])} :
       \E b \in {New(a.h, input[2])} :
       \E merged \in {HeapDeepMerge(b.h, a.ref, b.ref)} :
        /\ heap' = merged.h
        /\ refs' = <<a.ref, b.ref, merged.ref>>
        /\ out' = ValueOf(merged.h, merged.ref)
    /\ op' = <<"deep_merge">>
    /\ UNCHANGED << input, configVars, ntpVars >>

\* The caller sets a key of the dict deep_merge returned, at any depth.
Mutate ==
    /\ op = <<"deep_merge">>
    /\ \E ref \in Reach(heap, refs[3]) :
        heap' = HeapPut(heap, ref, <<"z">>, ValCell(<<"z">>))
    /\ op' = Append(op, "setitem")
    /\ out' = ValueOf(heap', refs[3])
    /\ UNCHANGED << input, refs, configVars, ntpVars >>

\* config._merge(a, b) for two dict objects a and b
Merge ==
    /\ Len(input) = 2
    /\ op = <<>>
    /\ \E a \in {New(<<>>, input[1])} :
       \E b \in {New(a.h, input[2])} :
       \E merged \in {HeapMerge(b.h, a.ref, b.ref)} :
        /\ heap' = merged
        /\ refs' = <<a.ref, b.ref, a.ref>>
        /\ out' = ValueOf(merged, a.ref)
    /\ op' = <<"_merge">>
    /\ UNCHANGED << input, configVars, ntpVars >>

\* config.merge_all([a, b]) and config.merge_all([a, b, c]) for dict objects
MergeAllConfigs ==
    /\ Len(input) >= 2
    /\ op = <<>>
    /\ \E a \in {New(<<>>, input[1])} :
       \E b \in {New(a.h, input[2])} :
       \E c \in {IF Len(input) = 3 THEN New(b.h, input[3]) ELSE [h |-> b.h, ref |-> 0]} :
       \E result \in {merge_all(c.h, IF c.ref > 0 THEN <<a.ref, b.ref, c.ref>>
                                     ELSE <<a.ref, b.ref>>)} :
        /\ heap' = result.h
        /\ refs' = <<a.ref, b.ref, result.ref>>
        /\ out' = ValueOf(result.h, result.ref)
    /\ op' = <<"merge_all">>
    /\ UNCHANGED << input, configVars, ntpVars >>

NextData ==
    \/ Flatten
    \/ Unflatten
    \/ DeepMergeThree
    \/ DeepMerge
    \/ Mutate
    \/ Merge
    \/ MergeAllConfigs

SpecData == InitData /\ [][NextData]_vars

\* ------------------------------------------------------------ the profile commands: steps
\* A command line session: each step is one btcli profile command, run with
\* the name it got as --profile.name, or the load of the active profile by
\* the resolution of the next command. The profiles are in the default
\* directory.
InitProfile ==
    /\ pc = "cli"
    /\ calls = 0
    /\ env_config = EmptyDict
    /\ params_config = EmptyDict
    /\ parser = ArgumentParser(<<>>)
    /\ args = <<>>
    /\ strict_arg = FALSE
    /\ environ = EmptyDict
    /\ files \in ProfileDirSet
    /\ self = EmptyDict
    /\ strict = FALSE
    /\ params = EmptyDict
    /\ default_params = EmptyDict
    /\ params_no_defaults = EmptyDict
    /\ defaults_and_env = EmptyDict
    /\ generic_config = EmptyDict
    /\ profile_config = EmptyDict
    /\ raised = NoException
    /\ printed = FALSE
    /\ profile_path = Scalar(PyNone)
    /\ munch_nodes = {}
    /\ NoData
    /\ NoNTP

\* what no profile command touches
cliFrame == << pc, calls, parser, args, strict_arg, environ, strict, params, default_params,
               params_no_defaults, defaults_and_env, env_config, params_config,
               generic_config, raised, profile_path, munch_nodes, input, heap, refs,
               ntpVars >>

PointerPath == path_join(HomeProfileDir, lit.btcliprofile)

\* ProfileCreateCommand.run, lines 82-135, with one key=value pair: the file
\* is path + name + ".yml"; where it exists the user is asked
ProfileCreate ==
    /\ pc = "cli"
    /\ \E name \in ProfileNames, overwrite \in {"y", "n"} :
       \E profile_file \in {expanduser(lit.bootstrap_profile_path) \o name \o lit.yml} :
        /\ self' = CliConfig(name)
        /\ files' = IF path_exists(files, profile_file) /\ overwrite = "n" THEN files
                    ELSE WriteFile(files, profile_file, CreatedDoc)
    /\ op' = <<"create">>
    /\ out' = Scalar(PyNone)
    /\ UNCHANGED << profile_config, printed, cliFrame >>

\* ProfileDeleteCommand.run, lines 260-276
ProfileDelete ==
    /\ pc = "cli"
    /\ \E name \in ProfileNames :
       \E profiles \in list_profiles(files, HomeProfileDir) :
       \E found \in {get_profile_path_from_config(CliConfig(name), profiles)} :
        /\ self' = CliConfig(name)
        /\ files' = IF IsNone(found) THEN files ELSE Del(files, found.val)
        /\ out' = found
    /\ op' = <<"delete">>
    /\ UNCHANGED << profile_config, printed, cliFrame >>

\* get_profile_path_from_config(cli), lines 48-52, as show, set_value and
\* delete_value call it first
GetProfilePath ==
    /\ pc = "cli"
    /\ \E name \in ProfileNames :
       \E profiles \in list_profiles(files, HomeProfileDir) :
        /\ self' = CliConfig(name)
        /\ out' = get_profile_path_from_config(CliConfig(name), profiles)
    /\ op' = <<"get_profile_file_path">>
    /\ UNCHANGED << files, profile_config, printed, cliFrame >>

\* ProfileUseCommand.run, lines 412-427: out is the profile it opened
ProfileUse ==
    /\ pc = "cli"
    /\ \E name \in ProfileNames :
       \E profiles \in list_profiles(files, HomeProfileDir) :
       \E opened \in {open_profile(CliConfig(name), files, profiles)} :
        /\ self' = CliConfig(name)
        /\ files' = IF IsNone(opened.profile_path) THEN files
                    ELSE WriteFile(files, path_join(expanduser(lit.bootstrap_profile_path),
                                                    lit.btcliprofile), Str(name))
        /\ out' = opened.profile_path
    /\ op' = <<"use">>
    /\ UNCHANGED << profile_config, printed, cliFrame >>

\* The resolution of the next command loads the active profile, line 249;
\* self.profile.path is the default path there.
LoadActiveProfile ==
    /\ pc = "cli"
    /\ Len(op) = 1
    /\ \E loaded \in {load_active_profile(BootstrapDefaults, files, EmptyDict)} :
        /\ profile_config' = loaded.profile_config
        /\ printed' = loaded.printed
    /\ op' = Append(op, "load_active_profile")
    /\ UNCHANGED << files, self, out, cliFrame >>

NextProfile ==
    \/ ProfileCreate
    \/ ProfileDelete
    \/ GetProfilePath
    \/ ProfileUse
    \/ LoadActiveProfile

SpecProfile == InitProfile /\ [][NextProfile]_vars

\* ------------------------------------------------------------ networking.py: get_current_ntp_time
\* The largest retries argument of the calls.
MaxRetries == 6

\* line 214
ntp_servers == << <<"0",".","p","o","o","l",".","n","t","p",".","o","r","g">>,
                  <<"1",".","p","o","o","l",".","n","t","p",".","o","r","g">>,
                  <<"2",".","p","o","o","l",".","n","t","p",".","o","r","g">> >>

\* the first server whatever the attempts
FirstServer(n) == ntp_servers[1]

\* line 217: ntp_servers[attempts % len(ntp_servers)]
ServerFor(n) == ntp_servers[(n % Len(ntp_servers)) + 1]

\* The tx_time of a response in seconds, and time.time_ns() of the system.
TxTimes == {1, 2}
SystemTimes == {1500000000, 1500000001}

\* line 221: int(response.tx_time * 1e9)
NanoPerSecond == 1000000000
Nanoseconds(tx_time) == tx_time * NanoPerSecond

\* what no step of get_current_ntp_time touches
ntpFrame == << configVars, dataVars >>

\* get_current_ntp_time(retries) is called, lines 213-215
GetCurrentNtpTime ==
    /\ ntp_pc \in {"idle", "returned"}
    /\ \E r \in 0..MaxRetries : retries' = r
    /\ attempts' = 0
    /\ requested' = <<>>
    /\ current_time' = NoTime
    /\ ntp_pc' = "while"
    /\ UNCHANGED << ntp_instance, ntpFrame >>

\* line 216: while attempts < retries
WhileAttempts ==
    /\ ntp_pc = "while"
    /\ ntp_pc' = IF attempts < retries THEN "try" ELSE "fallback"
    /\ UNCHANGED << ntp_instance, retries, attempts, requested, current_time, ntpFrame >>

\* lines 217-222: the server answers and its time is returned
RequestAnswered ==
    /\ ntp_pc = "try"
    /\ ntp_instance' = TRUE
    /\ requested' = Append(requested, ServerFor(attempts))
    /\ \E tx_time \in TxTimes :
        current_time' = [time |-> Nanoseconds(tx_time), source |-> "ntp"]
    /\ ntp_pc' = "returned"
    /\ UNCHANGED << retries, attempts, ntpFrame >>

\* lines 217-227: the request raises, which is counted and logged
RequestFailed ==
    /\ ntp_pc = "try"
    /\ ntp_instance' = TRUE
    /\ requested' = Append(requested, ServerFor(attempts))
    /\ attempts' = attempts + 1
    /\ ntp_pc' = "while"
    /\ UNCHANGED << retries, current_time, ntpFrame >>

\* lines 229-232: the system time is returned
SystemTime ==
    /\ ntp_pc = "fallback"
    /\ \E time_ns \in SystemTimes :
        current_time' = [time |-> time_ns, source |-> "system"]
    /\ ntp_pc' = "returned"
    /\ UNCHANGED << ntp_instance, retries, attempts, requested, ntpFrame >>

\* a step of a call that is running
StepNTP ==
    \/ WhileAttempts
    \/ RequestAnswered
    \/ RequestFailed
    \/ SystemTime

NextNTP ==
    \/ GetCurrentNtpTime
    \/ WhileAttempts
    \/ RequestAnswered
    \/ RequestFailed
    \/ SystemTime

InitNTP ==
    /\ pc = "idle"
    /\ calls = 0
    /\ env_config = EmptyDict
    /\ params_config = EmptyDict
    /\ NoCall
    /\ NoData
    /\ NoNTP

\* A call that is running takes its next step: a request ends with a
\* response or with an exception (ntplib gives up after its timeout).
SpecNTP == InitNTP /\ [][NextNTP]_vars /\ WF_vars(StepNTP)

\* ------------------------------------------------------------ properties
\* The value of a tree at a dotted path; Raise("KeyError") where the path
\* leaves the tree.
ValueAt(tree, p) == Lookup(tree, StrSplit(p, "."))

\* The four layer snapshots of the running call.
LayerD == default_params
LayerE == env_config
LayerF == deep_merge(generic_config, profile_config)
LayerT == params_no_defaults

LayerKeys == KeySet(LayerD) \cup KeySet(LayerE) \cup KeySet(LayerF) \cup KeySet(LayerT)

\* q is a proper prefix of p at a dot: one of them is a mapping where the
\* other is a scalar
DottedPrefix(q, p) == StartsWith(p, q \o <<".">>)

Conflict(p) == \E q \in LayerKeys : DottedPrefix(q, p) \/ DottedPrefix(p, q)

\* a layer has p, or a key in conflict with p
Touches(layer, p) ==
    \E q \in KeySet(layer) : q = p \/ DottedPrefix(q, p) \/ DottedPrefix(p, q)

ByPrecedence(p) ==
    IF Has(LayerT, p) THEN Get(LayerT, p)
    ELSE IF Has(LayerF, p) THEN Get(LayerF, p)
    ELSE IF Has(LayerE, p) THEN Get(LayerE, p)
    ELSE Get(LayerD, p)

\* some token is the flag of p, an abbreviation of it, or the flag with "=value"
TokenNames(p) ==
    \E k \in 1..Len(args) :
        /\ StartsWith(args[k], lit.dashes)
        /\ Len(args[k]) > 2
        /\ StartsWith(lit.dashes \o p, StrSplit1(args[k], "=")[1])

\* the final tree without its is-set map, its leaves, and the is-set map
FinalTree ==
    Dict(SelectSeq(self.items, LAMBDA item : item[1] # lit.is_set))
FinalFlat == flatten_dict(FinalTree)
IsSetMap == Get(self, lit.is_set)

\* The options as the callers declare them, before any defaults file.
DeclaredActions ==
    UniversalActions \o Tail(ParserTest.actions) \o Tail(ParserRequired.actions)
        \o Tail(ParserProfile.actions)

DeclaredDefault(p) ==
    DeclaredActions[CHOOSE i \in 1..Len(DeclaredActions) : DeclaredActions[i].dest = p].default

\* the paths of the one-value options of the call's parser
StoreDests ==
    {parser.actions[i].dest : i \in {j \in 1..Len(parser.actions) :
                                        parser.actions[j].kind = "store"}}

\* the values the tokens give to the option p: "--p v" and "--p=v"
TokenValues(p) ==
    {args[k + 1] : k \in {j \in 1..(Len(args) - 1) : args[j] = Opt(p)}}
    \cup {StrFrom(args[k], Len(p) + 3) :
            k \in {j \in 1..Len(args) : StartsWith(args[j], Opt(p) \o <<"=">>)}}

\* The key the specification gives a variable: BT_ stripped, lowercased, "_"
\* replaced by "."
SpecEnvKey(var) == StrReplace(StrLower(StrFrom(var, 3)), "_", ".")

\* a variable of the call's environment names p, by the rule of the
\* specification or by the rule of the code
EnvNames(p) ==
    \E var \in KeySet(environ) :
        /\ StartsWith(var, lit.BT_)
        /\ \E q \in {SpecEnvKey(var), EnvKey(var)} :
                q = p \/ DottedPrefix(q, p) \/ DottedPrefix(p, q)

EnvSets(p, v) ==
    \E var \in KeySet(environ) :
        /\ StartsWith(var, lit.BT_)
        /\ Get(environ, var) = Str(v)
        /\ p \in {SpecEnvKey(var), EnvKey(var)}

AfterLoadEnv == pc \in {"generic", "defaults_and_env", "profile", "merge", "is_set", "done"}
AfterLoadGeneric == pc \in {"defaults_and_env", "profile", "merge", "is_set", "done"}

C2_EnvOutranksGeneric ==
    ( /\ pc = "done"
      /\ Has(generic_config, lit.profile_path)
      /\ Get(generic_config, lit.profile_path) = Str(data.generic_path)
      /\ EnvSets(lit.profile_path, data.env_profile)
      /\ Has(env_config, lit.profile_path)
      /\ Get(env_config, lit.profile_path) = Str(data.env_profile)
      /\ ~Has(profile_config, lit.profile_path)
      /\ ~Has(LayerT, lit.profile_path) )
    => ValueAt(self, lit.profile_path) = Str(data.env_profile)

\* C3: once the environment is loaded, every variable BT_<NAME> has its value
\* in the environment snapshot under the key made of NAME (lowercased, "_"
\* as "."), a variable without the prefix has no entry, and BT_TEST_VAR is
\* test.var of the final tree.
C3_EnvKeyStripsPrefix ==
    /\ AfterLoadEnv =>
        \A var \in KeySet(environ) :
            IF StartsWith(var, lit.BT_)
            THEN /\ Has(env_config, SpecEnvKey(var))
                 /\ Get(env_config, SpecEnvKey(var)) = Get(environ, var)
            ELSE \A k \in KeySet(env_config) : Get(env_config, k) # Get(environ, var)
    /\ pc = "done" /\ Has(environ, data.BT_TEST_VAR) =>
        ValueAt(self, data.test_var) = Get(environ, data.BT_TEST_VAR)

\* The flags of the required options of the call's parser.
RequiredFlags ==
    {lit.dashes \o parser.actions[i].dest :
        i \in {j \in 1..Len(parser.actions) : parser.actions[j].required}}

\* the flag is a token of the token list
IsAToken(flag) == \E k \in 1..Len(args) : args[k] = flag

\* the flag is a part of some token of the token list
InAToken(flag) == \E k \in 1..Len(args) : StrContains(args[k], flag)

\* the step of __init__ that ends it with the missing-required-option error
\* naming the flags of the set, and leaves everything else as it was
FailsMissing(flags) ==
    /\ pc' = "failed"
    /\ raised'.name = "ValueError"
    /\ {raised'.missing[i] : i \in 1..Len(raised'.missing)} = flags
    /\ UNCHANGED << parser, self, strict, params, default_params, params_no_defaults,
                    defaults_and_env, env_config, params_config, generic_config,
                    profile_config, printed, profile_path, munch_nodes >>

IsSetMapOfLeaves ==
    /\ KeySet(IsSetMap) = KeySet(FinalFlat)
    /\ \A p \in KeySet(FinalFlat) :
        /\ Get(IsSetMap, p) \in {Scalar(PyTrue), Scalar(PyFalse)}
        /\ Get(IsSetMap, p) = Scalar(PyFalse)
            <=> (Has(LayerD, p) /\ Get(LayerD, p) = Get(FinalFlat, p))

\* C5 (as stated): after a successful resolution the is-set map is that of the
\* leaves, and a token that supplies the declared default of its option
\* leaves the option not set.
C5_IsSetDeclaredDefault ==
    pc = "done" =>
        /\ IsSetMapOfLeaves
        /\ \A p \in StoreDests :
            DeclaredDefault(p).val \in TokenValues(p) => ~is_set(self, p)

\* C5 (amended): after a successful resolution the is-set map is that of the
\* leaves, and a token that supplies the value the pure-defaults snapshot has
\* for its option (the declared default, or the one a --config defaults file
\* puts in its place) leaves the option not set.
C5_IsSetSnapshotDefault ==
    pc = "done" =>
        /\ IsSetMapOfLeaves
        /\ \A p \in StoreDests :
            (Has(LayerD, p) /\ Get(LayerD, p).val \in TokenValues(p)) => ~is_set(self, p)

\* --test_arg default_value: not set, beside an entry that is set
C5_Witness ==
    /\ pc = "done"
    /\ args = <<Opt(data.test_arg), data.default_value>>
    /\ Get(LayerD, data.test_arg) = Str(data.default_value)
    /\ Get(IsSetMap, data.test_arg) = Scalar(PyFalse)
    /\ \E p \in KeySet(IsSetMap) : Get(IsSetMap, p) = Scalar(PyTrue)

\* paths to ask is_set about
ProbePaths ==
    {data.test_arg, data.unknown_arg, lit.profile_path, lit.config_path, data.key, data.generic_test}

\* C6 (as stated): an option given a value in the tokens that differs from its
\* declared default has the token's value in the final tree and is set; a
\* path with no is-set entry is not set.
C6_TokenDiffersFromDeclared ==
    pc = "done" =>
        /\ \A p \in StoreDests : \A v \in TokenValues(p) :
            Str(v) # DeclaredDefault(p) =>
                ValueAt(self, p) = Str(v) /\ is_set(self, p)
        /\ \A p \in ProbePaths \ KeySet(IsSetMap) : ~is_set(self, p)

\* C6 (amended): an option given a value in the tokens that differs from the
\* value the pure-defaults snapshot has for it (the declared default, or the
\* one a --config defaults file puts in its place) has the token's value in
\* the final tree and is set; a path with no is-set entry is not set.
C6_TokenDiffersFromSnapshot ==
    pc = "done" =>
        /\ \A p \in StoreDests : \A v \in TokenValues(p) :
            (~Has(LayerD, p) \/ Str(v) # Get(LayerD, p)) =>
                ValueAt(self, p) = Str(v) /\ is_set(self, p)
        /\ \A p \in ProbePaths \ KeySet(IsSetMap) : ~is_set(self, p)

\* --test_arg new_value over the default default_value
C6_Witness ==
    /\ pc = "done"
    /\ args = <<Opt(data.test_arg), data.new_value>>
    /\ Get(LayerD, data.test_arg) = Str(data.default_value)
    /\ ValueAt(self, data.test_arg) = Str(data.new_value)
    /\ is_set(self, data.test_arg)
    /\ ~Has(IsSetMap, data.unknown_arg) /\ ~is_set(self, data.unknown_arg)

\* Nothing the call was given supplies p: no token, no variable of its
\* environment, no generic file and no profile file.
NotSupplied(p) ==
    /\ ~Touches(LayerT, p)
    /\ ~EnvNames(p)
    /\ ~Touches(generic_config, p)
    /\ ~Touches(profile_config, p)

\* C7: an option with a declared default that no token, no environment
\* variable, no generic file and no profile file supplies, and that no
\* --config defaults file has given another default, has its declared default
\* in the final tree and is not set.
C7_UnsuppliedKeepsDeclaredDefault ==
    pc = "done" =>
        \A p \in {parser.actions[i].dest : i \in 1..Len(parser.actions)} \ {lit.help} :
            (NotSupplied(p) /\ Has(LayerD, p) /\ Get(LayerD, p) = DeclaredDefault(p)) =>
                ValueAt(self, p) = DeclaredDefault(p) /\ ~is_set(self, p)

\* C8: config.path that nothing supplies is the bootstrap literal
\* "~/.bittensor/" in the final tree, and so is profile.path
\* ("~/.bittensor/profiles/") for a parser that declares no profile.path.
C8_BootstrapSurvives ==
    pc = "done" =>
        /\ NotSupplied(lit.config_path) =>
            ValueAt(self, lit.config_path) = Str(lit.bootstrap_config_path)
        /\ (~HasOption(parser, Opt(lit.profile_path)) /\ NotSupplied(lit.profile_path)) =>
            ValueAt(self, lit.profile_path) = Str(lit.bootstrap_profile_path)

\* C9: during a call, the environment snapshot, the overflow map, the generic
\* snapshot and the profile snapshot hold only entries that come from the
\* call's own environment, tokens and files.
C9_NoStateBetweenCalls ==
    pc # "idle" =>
        /\ \A k \in KeySet(env_config) :
            \E var \in KeySet(environ) :
                /\ StartsWith(var, lit.BT_)
                /\ EnvKey(var) = k
                /\ Get(environ, var) = Get(env_config, k)
        /\ \A k \in KeySet(params_config) :
            \E i \in 1..Len(args) :
                args[i] = Opt(k) \/ StartsWith(args[i], Opt(k) \o <<"=">>)
        /\ \A k \in KeySet(generic_config) :
            \E f \in KeySet(files) :
                IsDict(Get(files, f)) /\ Has(flatten_dict(Get(files, f)), k)
        /\ \A k \in KeySet(profile_config) \ {lit.profile_active} :
            \E f \in KeySet(files) :
                IsDict(Get(files, f)) /\ Has(flatten_dict(Get(files, f)), k)

\* C10: with the environment setting config.path=/env/config (a variable of
\* the call names it and the environment snapshot has it) and btcliconfig.yml
\* in /env/config alone, the generic snapshot is that file.
C10_GenericReadAfterEnv ==
    ( /\ AfterLoadGeneric
      /\ EnvSets(lit.config_path, data.env_config)
      /\ Has(env_config, lit.config_path)
      /\ Get(env_config, lit.config_path) = Str(data.env_config)
      /\ path_exists(files, path_join(data.env_config, lit.btcliconfig_yml))
      /\ ~path_exists(files, path_join(HomeConfigDir, lit.btcliconfig_yml)) )
    => generic_config = flatten_dict(Get(files, path_join(data.env_config, lit.btcliconfig_yml)))

\* ------------------------------------------------------------ properties of the codec and the merges
\* a == b of two Python values: dicts are equal whatever the order of their keys
RECURSIVE DictEq(_, _)
DictEq(x, y) ==
    IF IsDict(x) /\ IsDict(y)
    THEN /\ KeySet(x) = KeySet(y)
         /\ \A k \in KeySet(x) : DictEq(Get(x, k), Get(y, k))
    ELSE x = y

\* every value of the dict is a scalar
IsFlat(d) == \A i \in 1..Len(d.items) : IsScalar(d.items[i][2])

\* The leaf paths of a tree, one per leaf: no two of them are the same path
\* and none is a prefix of another at a dot.
NoCollision(t) ==
    Let(FlattenItems(t, <<>>, 1), LAMBDA leaves :
        \A i, j \in 1..Len(leaves) :
            i # j => /\ leaves[i][1] # leaves[j][1]
                     /\ ~DottedPrefix(leaves[i][1], leaves[j][1]))

\* no key of the flat dict is a strict prefix of another key
NoStrictPrefix(m) ==
    \A k1, k2 \in KeySet(m) : k1 # k2 => ~StartsWith(k2, k1)

\* C12: unflatten(flatten(t)) == t for every nested tree t without a
\* leaf/prefix path collision, its empty mappings and null leaves included.
C12_UnflattenFlatten ==
    (op = <<"flatten_dict", "unflatten_dict">> /\ NoCollision(input[1]))
        => DictEq(out, input[1])

\* C13: flatten(unflatten(m)) == m for every flat map m of dotted keys to
\* scalars in which no key is a strict prefix of another.
C13_FlattenUnflatten ==
    (op = <<"unflatten_dict", "flatten_dict">> /\ IsFlat(input[1])
                                               /\ NoStrictPrefix(input[1]))
        => DictEq(out, input[1])

\* C14: when the last key of a flat map goes through a segment that holds a
\* scalar written by an earlier key ("a" and then "a.b"), unflatten raises
\* nothing and its result has the last key's value at the last key's path,
\* whatever the kind of the scalar.
C14_ScalarReplacedByMapping ==
    (op = <<"unflatten_dict">> /\ IsFlat(input[1]) /\ Len(input[1].items) >= 2)
        => Let(input[1].items, LAMBDA items :
            (\E i \in 1..(Len(items) - 1) : DottedPrefix(items[i][1], items[Len(items)][1]))
                => /\ ~IsRaise(out)
                   /\ ValueAt(out, items[Len(items)][1]) = items[Len(items)][2])

\* The nodes of a tree: <<path, kind>> for every key at every depth.
RECURSIVE NodeKinds(_, _)
NodeKinds(tree, prefix) ==
    UNION { {<< prefix \o <<tree.items[i][1]>>, tree.items[i][2].t >>}
            \cup (IF IsDict(tree.items[i][2])
                  THEN NodeKinds(tree.items[i][2], prefix \o <<tree.items[i][1]>>)
                  ELSE {}) : i \in 1..Len(tree.items) }

\* some path holds a mapping in one operand and a scalar in another
Mismatch(operands) ==
    \E i, j \in 1..Len(operands) :
        \E n \in NodeKinds(operands[i], <<>>), m \in NodeKinds(operands[j], <<>>) :
            n[1] = m[1] /\ n[2] # m[2]

\* C15: deep_merge(deep_merge(a, b), c) == deep_merge(a, deep_merge(b, c))
\* for all trees a, b, c without a mapping/scalar mismatch, and there are
\* operands with such a mismatch for which the two sides differ.
C15_DeepMergeAssociative ==
    op = <<"deep_merge3">> =>
        /\ ~Mismatch(input) => DictEq(out[1], out[2])
        /\ \E t \in MergeTrees \X MergeTrees \X MergeTrees :
            /\ Mismatch(t)
            /\ ~DictEq(deep_merge(deep_merge(t[1], t[2]), t[3]),
                       deep_merge(t[1], deep_merge(t[2], t[3])))

\* three operands that all have the mapping a, with p and q set in turn
C15_Witness ==
    /\ op = <<"deep_merge3">>
    /\ ~Mismatch(input)
    /\ \A i \in 1..3 : Has(input[i], <<"a">>) /\ IsDict(Get(input[i], <<"a">>))
                       /\ Get(input[i], <<"a">>) # EmptyDict
    /\ input[1] # input[2] /\ input[2] # input[3]
    /\ ValueAt(out[1], <<"a", ".", "p">>) = Str(<<"y">>)
    /\ ValueAt(out[1], <<"a", ".", "q">>) = Str(<<"x">>)
    /\ DictEq(out[1], out[2])

\* C16: deep_merge(a, b) returns a new dict with the merged value, a and b
\* are as they were, no object of the result is an object of a or of b, and
\* setting a key of the result at any depth changes neither a nor b.
C16_DeepMergeSharesNothing ==
    /\ op = <<"deep_merge">> =>
        /\ ValueOf(heap, refs[1]) = input[1]
        /\ ValueOf(heap, refs[2]) = input[2]
        /\ Reach(heap, refs[3]) \cap (Reach(heap, refs[1]) \cup Reach(heap, refs[2])) = {}
        /\ DictEq(out, deep_merge(input[1], input[2]))
    /\ op = <<"deep_merge", "setitem">> =>
        /\ ValueOf(heap, refs[1]) = input[1]
        /\ ValueOf(heap, refs[2]) = input[2]
        /\ out # deep_merge(input[1], input[2])

\* a key is set in a mapping of the result that came from b alone
C16_Witness ==
    /\ op = <<"deep_merge", "setitem">>
    /\ \E k \in KeySet(input[2]) \ KeySet(input[1]) :
        /\ IsDict(Get(input[2], k))
        /\ Has(Get(out, k), <<"z">>)
        /\ ~Has(Get(ValueOf(heap, refs[2]), k), <<"z">>)

\* r is the right-biased recursive merge of a and b
RECURSIVE IsRightBiased(_, _, _)
IsRightBiased(r, a, b) ==
    /\ IsDict(r)
    /\ KeySet(r) = KeySet(a) \cup KeySet(b)
    /\ \A k \in KeySet(r) :
        IF ~Has(b, k) THEN DictEq(Get(r, k), Get(a, k))
        ELSE IF ~Has(a, k) THEN DictEq(Get(r, k), Get(b, k))
        ELSE IF IsDict(Get(a, k)) /\ IsDict(Get(b, k))
        THEN IsRightBiased(Get(r, k), Get(a, k), Get(b, k))
        ELSE DictEq(Get(r, k), Get(b, k))

\* the value config.deep_merge returns for two new dict objects
CopyingMerge(a, b) ==
    Let(New(<<>>, a), LAMBDA x :
        Let(New(x.h, b), LAMBDA y :
            Let(HeapDeepMerge(y.h, x.ref, y.ref), LAMBDA merged :
                ValueOf(merged.h, merged.ref))))

\* the in-place merge and the copying merge give the right-biased merge
MergeIsDeepMerge ==
    op = <<"_merge">> =>
        /\ IsRightBiased(out, input[1], input[2])
        /\ DictEq(out, CopyingMerge(input[1], input[2]))

\* the configs of the list that define the top-level key k, by index
Defining(k) == {i \in 1..Len(input) : Has(input[i], k)}
LastDefining(k) == CHOOSE i \in Defining(k) : \A j \in Defining(k) : j <= i

\* the right-biased merge of the configs of the list into a new config()
RECURSIVE MergedInOrder(_, _)
MergedInOrder(configs, n) ==
    IF n = 0 THEN config_new
    ELSE CopyingMerge(MergedInOrder(configs, n - 1), configs[n])

C18_EmptyIsIdentity ==
    op = <<"deep_merge">> =>
        /\ input[2] = EmptyDict => DictEq(out, input[1])
        /\ input[1] = EmptyDict => DictEq(out, input[2])

\* a tree of three levels merged with the empty dict
C18_Witness ==
    /\ op = <<"deep_merge">>
    /\ input[2] = EmptyDict
    /\ \E k \in KeySet(input[1]) :
        /\ IsDict(Get(input[1], k))
        /\ \E k2 \in KeySet(Get(input[1], k)) : IsDict(Get(Get(input[1], k), k2))
    /\ out = input[1]

\* ------------------------------------------------------------ properties of a failing call and of the tokens
\* The parsers as the callers make them.
CallerParsers == {c.parser : c \in CallSet}

\* C11: a call that fails leaves no change behind; for the first call of a
\* process, whose class attributes start empty: when it fails, the
\* environment snapshot and the overflow map are empty still and the
\* caller's parser is as the caller made it.
C11_FailedCallLeavesNothing ==
    (pc = "failed" /\ calls = 1) =>
        /\ env_config = EmptyDict
        /\ params_config = EmptyDict
        /\ parser \in CallerParsers

\* strict mode is in force: the strict argument, or the token --strict
StrictInForce == strict_arg \/ \E k \in 1..Len(args) : args[k] = Opt(lit.strict)

\* The tokens of the call that argparse does not recognize (for a parser
\* without a required option, which parses any of the token lists).
UnrecognizedTokens ==
    IF RequiredFlags = {} THEN parse_known_args(parser, args).extras ELSE <<>>

\* C19: with strict mode in force a token list with an unrecognized token
\* never gives a config, and without strict mode the same token list is no
\* reason for the call to fail: no parser exit and no exception of the
\* token loop ends it.
C19_StrictAbortsOnly ==
    /\ (pc = "done" /\ StrictInForce) => UnrecognizedTokens = <<>>
    /\ (pc = "failed" /\ ~StrictInForce /\ UnrecognizedTokens # <<>>)
            => raised.name \notin {"SystemExit", "ValueError"}

\* The unrecognized tokens --key and --key=value whose key is no name of the
\* parsed namespace: <<key, value>>, the value True where there is no "=".
OverflowTokens ==
    { Let(StrSplit1(StrFrom(UnrecognizedTokens[k], 2), "="), LAMBDA kv :
            IF Len(kv) = 2 THEN <<kv[1], Str(kv[2])>> ELSE <<kv[1], Scalar(PyTrue)>>) :
        k \in {j \in 1..Len(UnrecognizedTokens) :
                    /\ StartsWith(UnrecognizedTokens[j], lit.dashes)
                    /\ ~Has(params, StrFrom(UnrecognizedTokens[j], 2))} }

\* C20: after a best-effort parse every unrecognized --key or --key=value
\* token is in the overflow map as key -> value (True without "="), values
\* with "=" in them included, and the final tree has the value at the key.
C20_OverflowReachesTree ==
    (pc \in {"done", "failed"} /\ ~StrictInForce) =>
        \A kv \in OverflowTokens :
            /\ Has(params_config, kv[1]) /\ Get(params_config, kv[1]) = kv[2]
            /\ pc = "done" /\ ValueAt(self, kv[1]) = kv[2]

\* ------------------------------------------------------------ properties of merge and merge_all on objects
\* C28: merge and merge_all change the receiver or the result alone: after
\* a.merge(b) the config b is as it was and no dict object of a is one of b,
\* and after merge_all([c1, ..., cn]) the first two configs of the list are
\* as they were at every depth and no dict object of the result is one of
\* theirs.
C28_MergeLeavesInputs ==
    /\ op = <<"_merge">> =>
        /\ ValueOf(heap, refs[2]) = input[2]
        /\ Reach(heap, refs[1]) \cap Reach(heap, refs[2]) = {}
    /\ op = <<"merge_all">> =>
        /\ ValueOf(heap, refs[1]) = input[1]
        /\ ValueOf(heap, refs[2]) = input[2]
        /\ Reach(heap, refs[3]) \cap (Reach(heap, refs[1]) \cup Reach(heap, refs[2])) = {}

\* ------------------------------------------------------------ properties of the required options
\* The values the token list gives the flag: the token after it, or the
\* part after "=" of a token that begins with the flag and "=".
SuppliedValues(flag) ==
    {args[k + 1] : k \in {j \in 1..Len(args) - 1 : args[j] = flag}}
        \cup {StrFrom(args[k], Len(flag) + 1) :
                k \in {j \in 1..Len(args) : StartsWith(args[j], flag \o <<"=">>)}}

\* Nothing else can end the call: it is the first of its process, the
\* environment and the file system are empty and the parser of the call
\* recognizes every token.
NoOtherFailure ==
    /\ calls = 1
    /\ environ = EmptyDict
    /\ files = EmptyDict
    /\ Let(parse_known_args(parser, args), LAMBDA known :
            ~IsRaise(known.ns) /\ known.extras = <<>>)

\* C26: a call whose token list holds the flag of every required option with
\* a value, and that nothing else can end, completes, and the final tree has
\* the supplied value at the path of every required option.
C26_RequiredSuppliedCompletes ==
    ( /\ pc \in {"done", "failed"}
      /\ RequiredFlags # {}
      /\ \A f \in RequiredFlags : SuppliedValues(f) # {}
      /\ NoOtherFailure )
        => /\ pc = "done"
           /\ \A f \in RequiredFlags : ValueAt(self, StrFrom(f, 2)).val \in SuppliedValues(f)

\* ------------------------------------------------------------ properties of a read
\* The paths of the mappings of a tree, the root first.
RECURSIVE MappingPaths(_, _)
MappingPaths(tree, prefix) ==
    {prefix} \cup
    UNION { MappingPaths(Get(tree, k), Append(prefix, k)) :
                k \in {j \in KeySet(tree) : IsDict(Get(tree, j))} }

\* a key no option, variable or file of the calls has
AbsentKey == <<"m", "i", "s", "s", "i", "n", "g">>

\* C24: in the tree of a call that completed, reading an absent key of any
\* mapping (the root and every nested mapping, the is-set map aside) gives
\* the default, None, and does not raise.
C24_AbsentKeyGivesDefault ==
    pc = "done" =>
        \A path \in MappingPaths(FinalTree, <<>>) :
            ReadKey(self, munch_nodes, path, AbsentKey) = Scalar(PyNone)

\* ------------------------------------------------------------ properties of the profile
\* C27: in a call that completed, the directory where load_active_profile
\* looked for the pointer file .btcliprofile and for the profile file is the
\* profile.path of the final tree, whichever of the declared default, the
\* environment, the generic file and the tokens supply profile.path.
C27_LookupInFinalProfilePath ==
    pc = "done" => profile_path = Lookup(self, <<lit.profile, lit.path>>)

\* load_active_profile has run in the call: its local profile_path is a str
ProfileLookedUp ==
    pc \in {"merge", "is_set", "done", "failed"} /\ IsStr(profile_path) /\ Truthy(profile_path)

\* the pointer file, the name it holds and the profile file of that name
PointerFile == expanduser(path_join(profile_path.val, lit.btcliprofile))
ActiveName == StrStrip(Get(files, PointerFile).val)
ActiveProfileFile == expanduser(path_join(profile_path.val, ActiveName \o lit.yml))

\* the pointer file exists and the profile file it names exists and parses
ProfilePresent ==
    /\ ProfileLookedUp
    /\ path_exists(files, PointerFile)
    /\ path_exists(files, ActiveProfileFile)
    /\ ~IsRaise(Get(files, ActiveProfileFile))

\* the leaves of the content of the profile file
ProfileFileLeaves ==
    IF IsDict(Get(files, ActiveProfileFile)) THEN flatten_dict(Get(files, ActiveProfileFile))
    ELSE EmptyDict

\* C21: when the pointer file exists and names a profile whose file exists
\* and parses, the call does not fail, the profile snapshot has every leaf of
\* the content of the file and profile.active = the name, and the final tree
\* has profile.active = the name unless a token overrides it.
C21_ProfileLoaded ==
    ProfilePresent =>
        /\ pc # "failed"
        /\ \A k \in KeySet(ProfileFileLeaves) \ {lit.profile_active} :
                Has(profile_config, k) /\ Get(profile_config, k) = Get(ProfileFileLeaves, k)
        /\ Has(profile_config, lit.profile_active)
        /\ Get(profile_config, lit.profile_active) = Str(ActiveName)
        /\ pc = "done" =>
                \/ ValueAt(self, lit.profile_active) = Str(ActiveName)
                \/ TokenNames(lit.profile_active)

\* the keys of the leaves that the layers other than the profile give
OtherLayerKeys ==
    KeySet(generic_config) \cup KeySet(flatten_dict(defaults_and_env))
        \cup KeySet(params_no_defaults) \cup KeySet(params)
        \cup KeySet(flatten_dict(BootstrapDefaults))

\* the profile snapshot is empty and no leaf of the final tree is its own
NoProfileContribution ==
    /\ profile_config = EmptyDict
    /\ pc = "done" => KeySet(FinalFlat) \subseteq OtherLayerKeys

\* C22: when the pointer file exists and the profile file it names does
\* not, the call does not fail, the profile snapshot gives the final tree
\* no entry (no profile.active either) and the message is printed; when the
\* pointer file does not exist, the call does not fail, the profile
\* snapshot gives no entry and no message is printed.
C22_MissingProfileSkipped ==
    ProfileLookedUp =>
        /\ (path_exists(files, PointerFile) /\ ~path_exists(files, ActiveProfileFile))
                => pc # "failed" /\ NoProfileContribution /\ printed
        /\ ~path_exists(files, PointerFile)
                => pc # "failed" /\ NoProfileContribution /\ ~printed

\* a call completed with a pointer file that names a missing profile file
C22_Witness ==
    /\ pc = "done"
    /\ ProfileLookedUp
    /\ path_exists(files, PointerFile)
    /\ ~path_exists(files, ActiveProfileFile)
    /\ printed
    /\ ~Has(FinalFlat, lit.profile_active)

\* the combined file layer of lines 253-255: a tree, or the TypeError of
\* unflatten_dict
FileLayer == unflatten_dict(deep_merge(generic_config, profile_config))

\* the value the claim gives the path: the profile file's where it has the
\* path, else the generic file's
ProfileOverGeneric(p) ==
    IF Has(profile_config, p) THEN Get(profile_config, p) ELSE Get(generic_config, p)

\* C23: once both files are loaded, the combined file layer has for every
\* path of the two snapshots the value of the profile file where both or
\* the profile alone have the path and the value of the generic file where
\* it alone has it, and so has the final tree where no token gives the path.
C23_ProfileOverGeneric ==
    pc \in {"merge", "is_set", "done"} =>
        \A p \in KeySet(generic_config) \cup KeySet(profile_config) :
            /\ ValueAt(FileLayer, p) = ProfileOverGeneric(p)
            /\ (pc = "done" /\ ~Has(params_no_defaults, p))
                    => ValueAt(self, p) = ProfileOverGeneric(p)

\* ------------------------------------------------------------ properties of the profile commands
\* the name the last command got, and the file of the profile of that name
\* (a name given with its extension names the same file)
CommandName == Get(Get(self, lit.profile), data.name).val
NamedProfileFile ==
    path_join(HomeProfileDir, StrReplaceAll(CommandName, lit.yml, <<>>) \o lit.yml)

\* C25: get_profile_file_path(path, name) returns the path of the profile
\* file name.yml where the directory has that file and None where it has
\* not, whatever other profile files the directory has and in whatever
\* order they are listed.
C25_ExactProfileFile ==
    op = <<"get_profile_file_path">> =>
        out = IF path_exists(files, NamedProfileFile) THEN Str(NamedProfileFile)
              ELSE Scalar(PyNone)

\* C29: whenever use has written the pointer file, the name in it is the
\* base name of a profile file of the directory, and the resolution of the
\* next command loads that profile: its snapshot has profile.active = the
\* name and no message is printed.
C29_UseNamesExistingProfile ==
    /\ (op = <<"use">> /\ ~IsNone(out)) =>
            /\ Get(files, PointerPath) = Str(CommandName)
            /\ path_exists(files, path_join(HomeProfileDir, CommandName \o lit.yml))
    /\ (op = <<"use", "load_active_profile">> /\ ~IsNone(out)) =>
            /\ IsDict(profile_config)
            /\ Has(profile_config, lit.profile_active)
            /\ Get(profile_config, lit.profile_active) = Str(CommandName)
            /\ ~printed

\* ------------------------------------------------------------ properties of get_current_ntp_time
\* In a call, at most retries requests are made, the request after k
\* failures goes to server k mod 3, a returned server time comes with the
\* request that followed the failures counted and no request after it, and
\* the system time is returned after retries failures and as many requests.
BoundedRequests ==
    ntp_pc # "idle" =>
        /\ Len(requested) <= retries
        /\ \A k \in 0..(Len(requested) - 1) : requested[k + 1] = ntp_servers[(k % 3) + 1]
        /\ ntp_pc \in {"while", "try", "fallback"} => Len(requested) = attempts
        /\ (ntp_pc = "returned" /\ current_time.source = "ntp") =>
                /\ Len(requested) = attempts + 1
                /\ \E tx_time \in TxTimes : current_time.time = tx_time * 1000000000
        /\ (ntp_pc = "returned" /\ current_time.source = "system") =>
                /\ attempts = retries /\ Len(requested) = retries
                /\ current_time.time \in SystemTimes
        /\ ntp_pc = "returned" => current_time.source \in {"ntp", "system"}

\* C30: get_current_ntp_time(retries) always terminates, makes at most
\* retries requests, the one after k failures to server k mod 3 of the three
\* servers, returns the time of the first response without a further
\* request, and returns the system time after retries failures.
C30_NtpTimeTerminates ==
    /\ []BoundedRequests
    /\ (ntp_pc \in {"while", "try", "fallback"}) ~> (ntp_pc = "returned")

\* four servers asked, the first of them twice, and the fourth answered
C30_Witness ==
    /\ ntp_pc = "returned"
    /\ current_time.source = "ntp"
    /\ attempts = 3
    /\ Len(requested) = 4
    /\ requested[4] = requested[1]
    /\ requested[2] # requested[1]

====
